---- MODULE Spec2Model ----
(***************************************************************************)
(* A model of the coordination core of shart-gap: the room aggregate and   *)
(* its server election (src/src/room.rs), the protocol-switch state        *)
(* machine (src/src/protocol.rs) and the TCP transport's connection        *)
(* registry (src/src/networking.rs).                                       *)
(*                                                                         *)
(* Time is counted in ticks of 30 seconds, so that chrono's num_minutes()  *)
(* (whole minutes, truncated) can be told apart from the exact duration.   *)
(***************************************************************************)
EXTENDS Integers, Sequences, FiniteSets, TLC

VARIABLES
    now,        \* chrono::Utc::now(), in ticks of 30 s
    \* Room (room.rs)
    room,       \* the Room aggregate (room.rs:20-34)
    last,       \* the last Room operation: its name and result
    added,      \* how many add_message calls were made (room.rs:123)
    \* ProtocolManager (protocol.rs)
    current_switches,   \* room id -> ProtocolSwitchEvent (protocol.rs:28)
    events,             \* what was sent on event_sender (protocol.rs:29)
    exec,               \* the initiate_protocol_switch future in flight
    plast,              \* the last ProtocolManager call that returned
    \* NetworkManager (networking.rs)
    tcp_streams,        \* the peer ids that key tcp_streams (networking.rs:57)
    streams_lock,       \* who holds the Mutex around tcp_streams
    connections,        \* peer id -> PeerConnection (networking.rs:51)
    reader,             \* peer id -> where its handle_tcp_peer task is
    inbound,            \* the unbounded inbound queue (networking.rs:52-53)
    is_server,          \* networking.rs:55
    server_handle,      \* whether the accept loop was spawned (networking.rs:58)
    call,               \* the broadcast_message / send_to_peer in flight
    nlast,              \* what the last broadcast_message / send_to_peer returned
    \* The commands (commands.rs), InviteData (invite.rs), PingManager (ping.rs)
    join,               \* the join_party call in flight, or the last one
    cmd,                \* the last sync_messages call that returned
    invite,             \* an InviteData value and what was made of it
    measurements,       \* PingManager::measurements (ping.rs:54)
    marked_offline,     \* the peers marked offline since their last update_ping
    \* AppState (main.rs:16-20) and the commands in flight (commands.rs)
    current_party,      \* NONE, or the invocation that stored the party
    locks,              \* who holds the Mutex of current_party, of networking
    commands,           \* invocation -> the command it runs and where it is
    invoked             \* how many commands and dispatcher rounds were started

roomVars == <<room, last, added>>
protoVars == <<current_switches, events, exec, plast>>
netVars == <<tcp_streams, streams_lock, connections, reader, inbound,
             is_server, server_handle, call, nlast>>
extVars == <<join, cmd, invite, measurements, marked_offline>>
cmdVars == <<current_party, locks, commands, invoked>>
vars == <<now, roomVars, protoVars, netVars, extVars, cmdVars>>

(***************************************************************************)
(* Bounds of the model.                                                    *)
(***************************************************************************)
\* The clock stops at MaxNow ticks.
MaxNow == 12
\* Pings are drawn from a narrowed u64: U64_MAX stands for u64::MAX, the
\* largest value of the type (only comparisons with it matter).
U64_MAX == 3
\* Suffix numbers are a narrowed u32: U32_MAX stands for u32::MAX.
U32_MAX == 3
\* No more than MaxAdded messages are added to a room.
MaxAdded == 1100

(***************************************************************************)
(* Program constants.                                                      *)
(***************************************************************************)
\* room.rs:146, "Consider ping recent if within 5 minutes".
RECENT_MINUTES == 5
\* room.rs:127, "Keep only last 1000 messages".
KEEP_MESSAGES == 1000

NONE == "none"

UserIds == {"u1", "u2", "u3"}
CreatorId == "u1"
PingInputs == {1, 2, U64_MAX}
\* Time that passes between two operations: exactly 5 minutes, or 6.
TickSteps == {2 * RECENT_MINUTES, 2 * RECENT_MINUTES + 2}
\* The threshold check_room_health passes to cleanup_offline_users
\* (commands.rs:448).
Thresholds == {RECENT_MINUTES}

(***************************************************************************)
(* Helpers over integers and sets.                                         *)
(***************************************************************************)
\* chrono::Duration::num_minutes of a duration of d ticks (d >= 0): whole
\* minutes, the fraction dropped.
num_minutes(d) == d \div 2

\* The ticks of chrono::Duration::hours(h).
Hours(h) == 120 * h

\* The ticks of chrono::Duration::minutes(m).
Minutes(m) == 2 * m

SetMin(S) == CHOOSE x \in S : \A y \in S : x <= y
SetMax(S) == CHOOSE x \in S : \A y \in S : y <= x

(***************************************************************************)
(* Names are strings, modelled as sequences of one-character strings.      *)
(***************************************************************************)
Digits == <<"0", "1", "2", "3", "4", "5", "6", "7", "8", "9">>
DigitVal(c) == (CHOOSE i \in 1..10 : Digits[i] = c) - 1
IsDigit(c) == \E i \in 1..10 : Digits[i] = c

\* str::starts_with
starts_with(s, p) == Len(s) >= Len(p) /\ SubSeq(s, 1, Len(p)) = p

\* u32's Display: the decimal digits of n, no sign, no leading zero.
RECURSIVE format_u32(_)
format_u32(n) ==
    IF n < 10 THEN <<Digits[n + 1]>>
    ELSE format_u32(n \div 10) \o <<Digits[(n % 10) + 1]>>

\* The value of a non-empty sequence of digits.
RECURSIVE digits_value(_)
digits_value(s) ==
    IF Len(s) = 0 THEN 0
    ELSE 10 * digits_value(SubSeq(s, 1, Len(s) - 1)) + DigitVal(s[Len(s)])

\* str::parse::<u32>: an optional "+", then one digit or more, of a value
\* that fits the type; -1 stands for Err.
parse_u32(s) ==
    LET body == IF Len(s) > 0 /\ s[1] = "+" THEN Tail(s) ELSE s
    IN  IF /\ Len(body) > 0
           /\ \A i \in 1..Len(body) : IsDigit(body[i])
           /\ digits_value(body) <= U32_MAX
        THEN digits_value(body)
        ELSE -1

(***************************************************************************)
(* Room (room.rs).                                                         *)
(***************************************************************************)
\* User::new (user.rs:19-34): a fresh user is online, seen now.
User(name, address, is_online, last_seen) ==
    [name |-> name, address |-> address,
     is_online |-> is_online, last_seen |-> last_seen]

\* Room::new (room.rs:37-62): the creator is the only user and the server.
RoomNew(creator_id, creator) ==
    [users |-> (creator_id :> creator),
     server_user_id |-> creator_id,
     peer_addresses |-> <<creator.address>>,
     ping_measurements |-> << >>,
     messages |-> << >>,
     protocol |-> "TCP"]

SeqContains(s, x) == \E i \in 1..Len(s) : s[i] = x

\* Vec::retain(|a| a != x)
RECURSIVE retain_ne(_, _)
retain_ne(s, x) ==
    IF Len(s) = 0 THEN << >>
    ELSE IF Head(s) = x THEN retain_ne(Tail(s), x)
    ELSE <<Head(s)>> \o retain_ne(Tail(s), x)

\* A map without one key.
MapRemove(m, k) == [x \in DOMAIN m \ {k} |-> m[x]]
\* HashMap::insert
MapInsert(m, k, v) == [x \in DOMAIN m \cup {k} |-> IF x = k THEN v ELSE m[x]]

\* A slip: the suffix is the number of users in the room, plus one.
resolve_name_collision_by_count(r, desired_name, overflow_checks) ==
    LET existing_names == {r.users[u].name : u \in DOMAIN r.users}
    IN  IF desired_name \notin existing_names
        THEN [panicked |-> FALSE, name |-> desired_name]
        ELSE [panicked |-> FALSE,
              name |-> desired_name \o <<"-">>
                           \o format_u32(Cardinality(DOMAIN r.users) + 1)]

\* Room::resolve_name_collision (room.rs:84-108). suffix_num + 1
\* (room.rs:98) is a u32 addition: at u32::MAX it panics in a build with
\* overflow checks (debug) and wraps to 0 in a build without (release).
\* The result tells whether the call panicked, and the name it returned.
resolve_name_collision(r, desired_name, overflow_checks) ==
    LET existing_names == {r.users[u].name : u \in DOMAIN r.users}
        prefix == desired_name \o <<"-">>
        suffix_num(existing_name) ==
            parse_u32(SubSeq(existing_name, Len(prefix) + 1, Len(existing_name)))
        \* the existing names whose suffix is parsed
        suffixed == {n \in existing_names :
                        starts_with(n, prefix) /\ suffix_num(n) # -1}
        \* what one existing name contributes to highest_suffix
        contribution(existing_name) ==
            IF ~starts_with(existing_name, desired_name) THEN 1
            ELSE IF starts_with(existing_name, prefix)
            THEN IF suffix_num(existing_name) = -1 THEN 1
                 ELSE (suffix_num(existing_name) + 1) % (U32_MAX + 1)
            ELSE IF existing_name = desired_name THEN 2
            ELSE 1
        highest_suffix == SetMax({1} \cup {contribution(n) : n \in existing_names})
    IN  IF desired_name \notin existing_names
        THEN [panicked |-> FALSE, name |-> desired_name]
        ELSE IF overflow_checks /\ \E n \in suffixed : suffix_num(n) = U32_MAX
        THEN [panicked |-> TRUE, name |-> desired_name]
        ELSE [panicked |-> FALSE, name |-> prefix \o format_u32(highest_suffix)]

\* Room::is_ping_recent (room.rs:142-150), at time t.
is_ping_recent(r, user_id, t) ==
    IF user_id \in DOMAIN r.users
    THEN num_minutes(t - r.users[user_id].last_seen) < RECENT_MINUTES
    ELSE FALSE

\* The filter of elect_new_server (room.rs:156-163).
ElectionCandidates(r, t) ==
    {u \in DOMAIN r.ping_measurements :
        IF u \in DOMAIN r.users
        THEN /\ r.users[u].is_online
             /\ r.ping_measurements[u] < U64_MAX
             /\ is_ping_recent(r, u, t)
        ELSE FALSE}

OnlineUsers(r) == {u \in DOMAIN r.users : r.users[u].is_online}

\* A slip: max_by_key where min_by_key is meant.
best_candidates_max(r, t) ==
    LET C == ElectionCandidates(r, t)
    IN  {u \in C : \A v \in C : r.ping_measurements[u] >= r.ping_measurements[v]}

\* best_candidate (room.rs:154-165): min_by_key over the iteration of a
\* HashMap returns the first minimum in iteration order, which is
\* unspecified: any candidate of minimal ping can be returned.
best_candidates(r, t) ==
    LET C == ElectionCandidates(r, t)
    IN  {u \in C : \A v \in C : r.ping_measurements[u] <= r.ping_measurements[v]}

\* A slip: no fallback to the online users.
fallback_candidates_none(r) == {}

\* fallback_candidate (room.rs:168-175): find over the iteration of a
\* HashMap returns the first online user in iteration order.
fallback_candidates(r) == OnlineUsers(r)

\* The ids elect_new_server can assign (room.rs:177).
ElectWinners(r, t) ==
    IF best_candidates(r, t) # {} THEN best_candidates(r, t)
    ELSE IF fallback_candidates(r) # {} THEN fallback_candidates(r)
    ELSE {NONE}

\* Room::elect_new_server (room.rs:152-186): the rooms it can leave.
elect_new_server(r, t) ==
    {[r EXCEPT !.server_user_id = s] : s \in ElectWinners(r, t)}

\* A slip: the election runs before the user is marked offline.
mark_user_offline_elect_first(r, user_id, t) ==
    IF user_id \in DOMAIN r.users
    THEN IF r.server_user_id = user_id
         THEN {[r1 EXCEPT !.users[user_id].is_online = FALSE] :
                   r1 \in elect_new_server(r, t)}
         ELSE {[r EXCEPT !.users[user_id].is_online = FALSE]}
    ELSE {r}

\* Room::mark_user_offline (room.rs:276-288).
mark_user_offline(r, user_id, t) ==
    IF user_id \in DOMAIN r.users
    THEN LET r1 == [r EXCEPT !.users[user_id].is_online = FALSE]
         IN  IF r.server_user_id = user_id
             THEN elect_new_server(r1, t)
             ELSE {r1}
    ELSE {r}

\* A slip: the user is removed and no election follows.
remove_user_no_election(r, user_id, t) ==
    IF user_id \in DOMAIN r.users
    THEN {[r EXCEPT
            !.users = MapRemove(r.users, user_id),
            !.peer_addresses =
                retain_ne(r.peer_addresses, r.users[user_id].address)]}
    ELSE {r}

\* Room::remove_user (room.rs:110-121).
remove_user(r, user_id, t) ==
    IF user_id \in DOMAIN r.users
    THEN LET r1 == [r EXCEPT
                     !.users = MapRemove(r.users, user_id),
                     !.peer_addresses =
                         retain_ne(r.peer_addresses, r.users[user_id].address)]
         IN  IF r.server_user_id = user_id
             THEN elect_new_server(r1, t)
             ELSE {r1}
    ELSE {r}

\* A slip: a user whose id is known replaces the stored one.
add_user_overwrite(r, id, user) ==
    {[ok |-> id \notin DOMAIN r.users, panicked |-> FALSE,
      room |-> [r EXCEPT !.users = MapInsert(r.users, id, user)]]}

\* Room::add_user (room.rs:64-82): the outcomes the builds can produce, each
\* with the room it leaves, whether the call returned Ok and whether it
\* panicked (before any write, in resolve_name_collision).
add_user(r, id, user) ==
    IF id \in DOMAIN r.users
    THEN {[ok |-> FALSE, panicked |-> FALSE, room |-> r]}
    ELSE {LET res == resolve_name_collision(r, user.name, overflow_checks)
              named == [user EXCEPT !.name = res.name]
          IN  IF res.panicked
              THEN [ok |-> FALSE, panicked |-> TRUE, room |-> r]
              ELSE [ok |-> TRUE, panicked |-> FALSE,
                    room |-> [r EXCEPT
                        !.peer_addresses =
                            IF SeqContains(r.peer_addresses, user.address)
                            THEN r.peer_addresses
                            ELSE Append(r.peer_addresses, user.address),
                        !.users = MapInsert(r.users, id, named)]]
          : overflow_checks \in BOOLEAN}

\* A slip: the window is cut at its end, the newest message is lost.
add_message_keep_oldest(r, message) ==
    LET pushed == Append(r.messages, message)
    IN  [r EXCEPT !.messages =
            IF Len(pushed) > KEEP_MESSAGES
            THEN SubSeq(pushed, 1, KEEP_MESSAGES)
            ELSE pushed]

\* Room::add_message (room.rs:123-130): push, then drain(0..len - 1000)
\* when more than 1000 are held.
add_message(r, message) ==
    LET pushed == Append(r.messages, message)
    IN  [r EXCEPT !.messages =
            IF Len(pushed) > KEEP_MESSAGES
            THEN SubSeq(pushed, Len(pushed) - KEEP_MESSAGES + 1, Len(pushed))
            ELSE pushed]

\* A slip: a user that reports a ping starts an election.
update_ping_reelects(r, user_id, ping_ms, t) ==
    LET r1 == [r EXCEPT !.ping_measurements =
                            MapInsert(r.ping_measurements, user_id, ping_ms)]
        r2 == IF user_id \in DOMAIN r.users
              THEN [r1 EXCEPT !.users[user_id].last_seen = t,
                              !.users[user_id].is_online = TRUE]
              ELSE r1
    IN  CHOOSE r3 \in elect_new_server(r2, t) : TRUE

\* Room::update_ping (room.rs:132-140).
update_ping(r, user_id, ping_ms, t) ==
    LET r1 == [r EXCEPT !.ping_measurements =
                            MapInsert(r.ping_measurements, user_id, ping_ms)]
    IN  IF user_id \in DOMAIN r.users
        THEN [r1 EXCEPT !.users[user_id].last_seen = t,
                        !.users[user_id].is_online = TRUE]
        ELSE r1

\* Room::switch_protocol (room.rs:202-204).
switch_protocol(r, new_protocol) == [r EXCEPT !.protocol = new_protocol]

\* Room::mark_user_online (room.rs:290-297).
mark_user_online(r, user_id, t) ==
    IF user_id \in DOMAIN r.users
    THEN [r EXCEPT !.users[user_id].is_online = TRUE,
                   !.users[user_id].last_seen = t]
    ELSE r

\* The first loop of cleanup_offline_users (room.rs:303-310).
users_to_mark_offline(r, offline_threshold_minutes, t) ==
    {u \in DOMAIN r.users :
        /\ r.users[u].is_online
        /\ num_minutes(t - r.users[u].last_seen) > offline_threshold_minutes}

\* The second loop (room.rs:312-314): mark_user_offline for each collected
\* id, in the order the HashMap iteration gave (any order), from any of the
\* rooms in rs.
RECURSIVE mark_all_offline(_, _, _)
mark_all_offline(rs, ids, t) ==
    IF ids = {} THEN rs
    ELSE UNION {mark_all_offline(
                    UNION {mark_user_offline(r, u, t) : r \in rs},
                    ids \ {u}, t) : u \in ids}

\* The retain of cleanup_offline_users (room.rs:318-330).
retain_pings(r, t) ==
    LET keep == {u \in DOMAIN r.ping_measurements :
                    IF u \in DOMAIN r.users
                    THEN IF r.users[u].is_online THEN TRUE
                         ELSE num_minutes(t - r.users[u].last_seen) < RECENT_MINUTES
                    ELSE FALSE}
    IN  [r EXCEPT !.ping_measurements = [u \in keep |-> r.ping_measurements[u]]]

\* Room::cleanup_offline_users (room.rs:299-331): the rooms it can leave.
cleanup_offline_users(r, offline_threshold_minutes, t) ==
    {retain_pings(r1, t) :
        r1 \in mark_all_offline({r},
                  users_to_mark_offline(r, offline_threshold_minutes, t), t)}

\* A slip: the age of the server's last_seen is not looked at.
server_is_healthy_any_age(r, t) ==
    /\ r.server_user_id # NONE
    /\ r.server_user_id \in DOMAIN r.users
    /\ r.users[r.server_user_id].is_online

\* The conditions under which check_server_health returns true
\* (room.rs:334-349).
server_is_healthy(r, t) ==
    /\ r.server_user_id # NONE
    /\ r.server_user_id \in DOMAIN r.users
    /\ r.users[r.server_user_id].is_online
    /\ is_ping_recent(r, r.server_user_id, t)

\* Room::check_server_health (room.rs:333-360): the pairs <<room, result>>
\* it can end with.
check_server_health(r, t) ==
    IF server_is_healthy(r, t) THEN {<<r, TRUE>>}
    ELSE {<<r1, FALSE>> : r1 \in elect_new_server(r, t)}

(***************************************************************************)
(* The Room's state machine.                                               *)
(***************************************************************************)
\* In this specification a user's name is that of its id.
NameOf(id) == <<id>>
\* The address a user joins from: u2 and u3 sit behind one address.
AddrOf(id) == IF id = CreatorId THEN "a1" ELSE "a2"

\* What is recorded of an operation: whether elect_new_server ran in it,
\* its result, and its name if it is check_server_health or ran the
\* election (an operation that only edited users or pings is an "edit").
Last(op, ret, elected) ==
    [op |-> IF elected \/ op = "check_server_health" THEN op ELSE "edit",
     ret |-> ret, elected |-> elected]

InitRoom ==
    /\ now = 0
    /\ room = RoomNew(CreatorId, User(NameOf(CreatorId), AddrOf(CreatorId), TRUE, 0))
    /\ last = [op |-> "edit", ret |-> TRUE, elected |-> FALSE]
    /\ added = 0

Tick ==
    \E d \in TickSteps :
        /\ now + d <= MaxNow
        /\ now' = now + d
        /\ last' = Last("tick", TRUE, FALSE)
        /\ UNCHANGED <<room, added, protoVars, netVars, extVars, cmdVars>>

\* A user built by User::new at this moment, or one decoded from a
\* UserJoined payload (main.rs:93-96): any online flag, any earlier
\* last_seen.
AddUser ==
    \E id \in UserIds, is_online \in BOOLEAN, last_seen \in {0, now} :
        \E res \in add_user(room, id,
                             User(NameOf(id), AddrOf(id), is_online, last_seen)) :
            /\ room' = res.room
            /\ last' = Last("add_user", res.ok, FALSE)
            /\ UNCHANGED <<now, added, protoVars, netVars, extVars, cmdVars>>

RemoveUser ==
    \E id \in UserIds :
        /\ room' \in remove_user(room, id, now)
        /\ last' = Last("remove_user", TRUE,
                        id \in DOMAIN room.users /\ room.server_user_id = id)
        /\ UNCHANGED <<now, added, protoVars, netVars, extVars, cmdVars>>

UpdatePing ==
    \E id \in UserIds, ping_ms \in PingInputs :
        /\ room' = update_ping(room, id, ping_ms, now)
        /\ last' = Last("update_ping", TRUE, FALSE)
        /\ UNCHANGED <<now, added, protoVars, netVars, extVars, cmdVars>>

MarkUserOffline ==
    \E id \in UserIds :
        /\ room' \in mark_user_offline(room, id, now)
        /\ last' = Last("mark_user_offline", TRUE,
                        id \in DOMAIN room.users /\ room.server_user_id = id)
        /\ UNCHANGED <<now, added, protoVars, netVars, extVars, cmdVars>>

MarkUserOnline ==
    \E id \in UserIds :
        /\ room' = mark_user_online(room, id, now)
        /\ last' = Last("mark_user_online", TRUE, FALSE)
        /\ UNCHANGED <<now, added, protoVars, netVars, extVars, cmdVars>>

CleanupOfflineUsers ==
    \E th \in Thresholds :
        /\ room' \in cleanup_offline_users(room, th, now)
        /\ last' = Last("cleanup_offline_users", TRUE,
                        room.server_user_id \in users_to_mark_offline(room, th, now))
        /\ UNCHANGED <<now, added, protoVars, netVars, extVars, cmdVars>>

CheckServerHealth ==
    \E res \in check_server_health(room, now) :
        /\ room' = res[1]
        /\ last' = Last("check_server_health", res[2], ~res[2])
        /\ UNCHANGED <<now, added, protoVars, netVars, extVars, cmdVars>>

ElectNewServer ==
    /\ room' \in elect_new_server(room, now)
    /\ last' = Last("elect_new_server", TRUE, TRUE)
    /\ UNCHANGED <<now, added, protoVars, netVars, extVars, cmdVars>>

NextRoom ==
    \/ Tick
    \/ AddUser
    \/ RemoveUser
    \/ UpdatePing
    \/ MarkUserOffline
    \/ MarkUserOnline
    \/ CleanupOfflineUsers
    \/ CheckServerHealth
    \/ ElectNewServer

(***************************************************************************)
(* ProtocolManager (protocol.rs).                                          *)
(*                                                                         *)
(* initiate_protocol_switch takes &mut self and runs the whole switch      *)
(* before it returns, so no other method of the manager runs while its     *)
(* future is alive. The future suspends in wait_for_peer_acknowledgments   *)
(* (protocol.rs:160) and in the pause of protocol.rs:96; a caller that     *)
(* drops it there (a timeout, an aborted task) leaves the stored event as  *)
(* it is. send_preparation_message and reconnect_to_peer are placeholders  *)
(* that return Ok(()), so the Failed branches of protocol.rs:87-90 and     *)
(* 101-104 are never taken.                                                *)
(***************************************************************************)
RoomIds == {"r1", "r2"}
\* The switches a caller asks for.
SwitchInputs ==
    {[from_protocol |-> "TCP", to_protocol |-> "WebRTC", peers |-> <<"a1", "a2">>],
     [from_protocol |-> "WebRTC", to_protocol |-> "TCP", peers |-> << >>]}
\* No more than MaxEvents events are sent on the event channel.
MaxEvents == 8

\* ProtocolSwitchEvent (protocol.rs:18-25); reason is the text of Failed(_).
SwitchEvent(room_id, from_protocol, to_protocol, state, reason, peers, t) ==
    [room_id |-> room_id, from_protocol |-> from_protocol,
     to_protocol |-> to_protocol, state |-> state, reason |-> reason,
     affected_peers |-> peers, timestamp |-> t]

\* matches!(state, Complete | Failed(_)) (protocol.rs:56, 247).
is_terminal(state) == state \in {"Complete", "Failed"}

\* A slip: a stored event blocks a new switch whatever its state.
switch_in_progress_any_state(cs, room_id) == room_id \in DOMAIN cs

\* The check that opens initiate_protocol_switch (protocol.rs:55-59).
switch_in_progress(cs, room_id) ==
    room_id \in DOMAIN cs /\ ~is_terminal(cs[room_id].state)

\* ProtocolManager::update_switch_state (protocol.rs:205-214): the pair
\* <<current_switches, events>> it leaves.
update_switch_state(cs, ev, room_id, new_state, reason, t) ==
    IF room_id \in DOMAIN cs
    THEN LET e == [cs[room_id] EXCEPT !.state = new_state,
                                      !.reason = reason, !.timestamp = t]
         IN  <<[cs EXCEPT ![room_id] = e], Append(ev, e)>>
    ELSE <<cs, ev>>

\* A slip: the cancelled event is stored and not sent.
cancel_switch_unpublished(cs, ev, room_id, t) ==
    IF room_id \in DOMAIN cs
    THEN <<[cs EXCEPT ![room_id].state = "Failed",
                      ![room_id].reason = "Cancelled by user",
                      ![room_id].timestamp = t], ev>>
    ELSE <<cs, ev>>

\* ProtocolManager::cancel_switch (protocol.rs:233-242): the pair
\* <<current_switches, events>> it leaves.
cancel_switch(cs, ev, room_id, t) ==
    IF room_id \in DOMAIN cs
    THEN LET e == [cs[room_id] EXCEPT !.state = "Failed",
                                      !.reason = "Cancelled by user",
                                      !.timestamp = t]
         IN  <<[cs EXCEPT ![room_id] = e], Append(ev, e)>>
    ELSE <<cs, ev>>

\* A slip: a rejected call marks the running switch Failed.
rejected_switch_fails_running(cs, ev, room_id, t) ==
    update_switch_state(cs, ev, room_id, "Failed", "rejected", t)

\* initiate_protocol_switch when a switch is in progress (protocol.rs:55-59):
\* the Err is returned before anything is written; the pair
\* <<current_switches, events>> it leaves.
rejected_switch(cs, ev, room_id, t) == <<cs, ev>>

\* The rounds of the loop of wait_for_peer_acknowledgments: 10 s in sleeps
\* of 100 ms (protocol.rs:153, 160), narrowed.
AckWaitPolls == 2

\* A slip: the wait ends only when the peers have acknowledged, and no
\* acknowledgment is ever read.
ack_wait_needs_acks(polls) == FALSE

\* The loop condition of wait_for_peer_acknowledgments, negated
\* (protocol.rs:156): the time is up, acknowledged or not.
ack_wait_over(polls) == polls >= AckWaitPolls

\* The stored state of a room's switch; "None" when none is stored.
StateOf(cs, room_id) == IF room_id \in DOMAIN cs THEN cs[room_id].state ELSE "None"

NoExec == [pc |-> "none", room_id |-> NONE, polls |-> 0]

\* ProtocolManager::new (protocol.rs:34-41).
InitProto ==
    /\ current_switches = << >>
    /\ events = << >>
    /\ exec = NoExec
    /\ plast = [op |-> "new", room_id |-> NONE, ret |-> "Ok", pre |-> "None",
                failed |-> {}]

\* initiate_protocol_switch up to its first suspension (protocol.rs:47-75,
\* 84-87, 112-126, 151-160): the check, the insert, the first event,
\* update_switch_state(Preparing), the preparation messages.
InitiateProtocolSwitch ==
    \E room_id \in RoomIds, inp \in SwitchInputs :
        /\ exec.pc = "none"
        /\ IF switch_in_progress(current_switches, room_id)
           THEN LET rej == rejected_switch(current_switches, events, room_id, now)
                IN  /\ current_switches' = rej[1]
                    /\ events' = rej[2]
                    /\ plast' = [op |-> "initiate_protocol_switch",
                                 room_id |-> room_id, ret |-> "Err",
                                 pre |-> StateOf(current_switches, room_id),
                                 failed |-> {}]
                    /\ UNCHANGED exec
           ELSE LET e == SwitchEvent(room_id, inp.from_protocol, inp.to_protocol,
                                     "Preparing", "", inp.peers, now)
                    upd == update_switch_state(
                               MapInsert(current_switches, room_id, e),
                               Append(events, e), room_id, "Preparing", "", now)
                IN  /\ Len(upd[2]) <= MaxEvents
                    /\ current_switches' = upd[1]
                    /\ events' = upd[2]
                    /\ exec' = [pc |-> "wait_for_peer_acknowledgments",
                                room_id |-> room_id, polls |-> 0]
                    /\ plast' = [op |-> "initiate_protocol_switch",
                                 room_id |-> room_id, ret |-> "pending",
                                 pre |-> StateOf(current_switches, room_id),
                                 failed |-> {}]
        /\ UNCHANGED <<now, roomVars, netVars, extVars, cmdVars>>

\* One round of the acknowledgment wait (protocol.rs:156-161): nothing is
\* read, 100 ms pass.
AckWaitPoll ==
    /\ exec.pc = "wait_for_peer_acknowledgments"
    /\ exec.polls < AckWaitPolls
    /\ ~ack_wait_over(exec.polls)
    /\ exec' = [exec EXCEPT !.polls = @ + 1]
    /\ UNCHANGED <<now, current_switches, events, plast, roomVars, netVars,
                   extVars, cmdVars>>

\* The acknowledgment wait ends after its 10 s (protocol.rs:151-164); Phase 2
\* starts and suspends in its pause (protocol.rs:93-96).
AckWaitElapsed ==
    LET upd == update_switch_state(current_switches, events, exec.room_id,
                                   "Switching", "", now)
    IN  /\ exec.pc = "wait_for_peer_acknowledgments"
        /\ ack_wait_over(exec.polls)
        /\ Len(upd[2]) <= MaxEvents
        /\ current_switches' = upd[1]
        /\ events' = upd[2]
        /\ exec' = [exec EXCEPT !.pc = "sleep", !.polls = 0]
        /\ UNCHANGED <<now, plast, roomVars, netVars, extVars, cmdVars>>

\* The pause of protocol.rs:96 ends; Phase 3 starts (protocol.rs:99).
SleepElapsed ==
    LET upd == update_switch_state(current_switches, events, exec.room_id,
                                   "Reconnecting", "", now)
    IN  /\ exec.pc = "sleep"
        /\ Len(upd[2]) <= MaxEvents
        /\ current_switches' = upd[1]
        /\ events' = upd[2]
        /\ exec' = [exec EXCEPT !.pc = "reconnect_peers"]
        /\ UNCHANGED <<now, plast, roomVars, netVars, extVars, cmdVars>>

\* What a call of reconnect_to_peer returns (protocol.rs:182-203). Its body
\* is a placeholder that returns Ok(()); the Err that its Result type allows
\* and that reconnect_peers handles is kept as a possible outcome, for the
\* connection attempt the placeholder stands for.
ReconnectResults == {"Ok", "Err"}

\* The elements of a sequence.
Range(s) == {s[i] : i \in 1..Len(s)}

\* ProtocolManager::reconnect_peers (protocol.rs:166-180): every peer is
\* tried, an Err is logged, and the result is Ok(()).
reconnect_peers(peers, results) == "Ok"

\* reconnect_peers returns without suspending (protocol.rs:101-104), then
\* Phase 4 and the call returns Ok (protocol.rs:107-109).
ReconnectDone ==
    /\ exec.pc = "reconnect_peers"
    /\ \E results \in [Range(current_switches[exec.room_id].affected_peers)
                           -> ReconnectResults] :
        LET peers == current_switches[exec.room_id].affected_peers
            res == reconnect_peers(peers, results)
            upd == IF res = "Err"
                   THEN update_switch_state(current_switches, events, exec.room_id,
                                            "Failed", "reconnect", now)
                   ELSE update_switch_state(current_switches, events, exec.room_id,
                                            "Complete", "", now)
        IN  /\ Len(upd[2]) <= MaxEvents
            /\ current_switches' = upd[1]
            /\ events' = upd[2]
            /\ exec' = NoExec
            /\ plast' = [plast EXCEPT !.ret = res,
                                      !.failed = {a \in Range(peers) :
                                                     results[a] = "Err"}]
            /\ UNCHANGED <<now, roomVars, netVars, extVars, cmdVars>>

\* The caller drops the future while it is suspended.
DropSwitchFuture ==
    /\ exec.pc \in {"wait_for_peer_acknowledgments", "sleep"}
    /\ exec' = NoExec
    /\ plast' = [plast EXCEPT !.ret = "dropped"]
    /\ UNCHANGED <<now, current_switches, events, roomVars, netVars, extVars,
                   cmdVars>>

CancelSwitch ==
    \E room_id \in RoomIds :
        LET upd == cancel_switch(current_switches, events, room_id, now)
        IN  /\ exec.pc = "none"
            /\ Len(upd[2]) <= MaxEvents
            /\ current_switches' = upd[1]
            /\ events' = upd[2]
            /\ plast' = [op |-> "cancel_switch", room_id |-> room_id,
                         ret |-> "Ok", pre |-> StateOf(current_switches, room_id),
                         failed |-> {}]
            /\ UNCHANGED <<now, exec, roomVars, netVars, extVars, cmdVars>>

\* ProtocolManager::cleanup_completed_switches (protocol.rs:220-231) at
\* time t: the switches it retains.
cleanup_completed_switches(cs, t) ==
    LET cutoff == t - Hours(1)
        retained == {r \in DOMAIN cs :
                        IF is_terminal(cs[r].state) THEN cs[r].timestamp > cutoff
                        ELSE TRUE}
    IN  [r \in retained |-> cs[r]]

CleanupCompletedSwitches ==
    /\ exec.pc = "none"
    /\ current_switches' = cleanup_completed_switches(current_switches, now)
    /\ plast' = [op |-> "cleanup_completed_switches", room_id |-> NONE,
                 ret |-> "Ok", pre |-> "None", failed |-> {}]
    /\ UNCHANGED <<now, events, exec, roomVars, netVars, extVars, cmdVars>>

\* The clock of the switches stops at MaxClock.
MaxClock == 121

\* Time that passes between two steps of the manager: an hour, or half a
\* minute less or more.
HourSteps == {Hours(1) - 1, Hours(1), Hours(1) + 1}

TickHour ==
    \E d \in HourSteps :
        /\ now + d <= MaxClock
        /\ now' = now + d
        /\ UNCHANGED <<roomVars, protoVars, netVars, extVars, cmdVars>>

NextSwitchCleanup ==
    \/ InitiateProtocolSwitch
    \/ AckWaitPoll
    \/ AckWaitElapsed
    \/ SleepElapsed
    \/ ReconnectDone
    \/ DropSwitchFuture
    \/ CancelSwitch
    \/ CleanupCompletedSwitches
    \/ TickHour

NextProto ==
    \/ InitiateProtocolSwitch
    \/ AckWaitPoll
    \/ AckWaitElapsed
    \/ SleepElapsed
    \/ ReconnectDone
    \/ DropSwitchFuture
    \/ CancelSwitch

\* The events one switch sends from Preparing to Complete (protocol.rs:71,
\* 85, 93, 99, 107).
EventsPerSwitch == 5

\* A switch is started only when the events of its whole run fit.
InitiateWithRoomForEvents ==
    /\ Len(events) + EventsPerSwitch <= MaxEvents
    /\ InitiateProtocolSwitch

\* The manager with callers that await initiate_protocol_switch to its end.
NextSwitchRun ==
    \/ InitiateWithRoomForEvents
    \/ AckWaitPoll
    \/ AckWaitElapsed
    \/ SleepElapsed
    \/ ReconnectDone
    \/ CancelSwitch
    \/ TickHour

(***************************************************************************)
(* NetworkManager (networking.rs), the TCP backend.                        *)
(*                                                                         *)
(* The manager lives in an Arc<Mutex<NetworkManager>> (main.rs:20), so one *)
(* method of it runs at a time; the accept loop and the reader tasks are   *)
(* spawned tasks that share only tcp_streams and the inbound queue.        *)
(***************************************************************************)
\* A peer id is the text of a socket address (networking.rs:138, 179): of
\* the address dialled for an outbound connection, of the remote end for an
\* accepted one.
OutboundPeers == {"p1", "p2"}
InboundPeers == {"p3"}
PeerIds == OutboundPeers \cup InboundPeers
\* Frames read from one connection.
MaxFrames == 2
\* Messages in the inbound queue.
MaxInbound == 3
FrameKinds == {"message", "invalid_utf8", "invalid_json", "read_error"}

\* PeerConnection (networking.rs:42-48, 188-194); ping_ms -1 is None.
PeerConnection(addr, t) ==
    [addr |-> addr, protocol |-> "TCP", is_server |-> FALSE,
     ping_ms |-> -1, last_seen |-> t]

NoCall == [op |-> "none", snapshot |-> {}, pending |-> {}, cur |-> NONE,
           attempted |-> {}, failed |-> {}, ret |-> "Ok"]
\* Connections made with one peer id, one after the other.
MaxConns == 2
\* The reader task of a peer id: where it is, which of the peer's connections
\* it reads (0: none yet), the frames it has read from it, and the number of
\* the first frame it read that did not decode (0: none).
NoReader == [pc |-> "none", conn |-> 0, frames |-> 0, skipped |-> 0]
\* nlast while no broadcast_message or send_to_peer has returned since the
\* last one started.
NoResult == [op |-> "none", snapshot |-> {}, attempted |-> {}, failed |-> {},
             ret |-> "Ok"]

\* NetworkManager::new (networking.rs:62-74).
InitNet ==
    /\ tcp_streams = {}
    /\ streams_lock = "free"
    /\ connections = << >>
    /\ reader = [p \in PeerIds |-> NoReader]
    /\ inbound = << >>
    /\ is_server = FALSE
    /\ server_handle = FALSE
    /\ call = NoCall
    /\ nlast = NoResult

\* start_server / start_tcp_server (networking.rs:76-85, 124-163): the bind
\* can fail; on success the accept loop is spawned.
StartServer ==
    \E bound \in BOOLEAN :
        /\ call.op = "none"
        /\ is_server' = TRUE
        /\ server_handle' = (server_handle \/ bound)
        /\ UNCHANGED <<now, extVars, roomVars, protoVars, tcp_streams, streams_lock,
                       connections, reader, inbound, call, nlast, cmdVars>>

\* One round of the accept loop (networking.rs:132-153): the stream is
\* registered and its reader task spawned. (One reader task per peer id at a
\* time.)
AcceptConnection ==
    \E p \in InboundPeers :
        /\ server_handle
        /\ streams_lock = "free"
        /\ reader[p].pc \in {"none", "stopped"}
        /\ reader[p].conn < MaxConns
        /\ tcp_streams' = tcp_streams \cup {p}
        /\ reader' = [reader EXCEPT ![p] = [pc |-> "spawned", conn |-> @.conn + 1,
                                            frames |-> 0, skipped |-> 0]]
        /\ UNCHANGED <<now, extVars, roomVars, protoVars, streams_lock, connections,
                       inbound, is_server, server_handle, call, nlast,
                       cmdVars>>

\* connect_to_peer / connect_tcp (networking.rs:87-93, 175-207).
ConnectToPeer ==
    \E p \in OutboundPeers, connected \in BOOLEAN :
        /\ call.op = "none"
        /\ streams_lock = "free"
        /\ reader[p].pc \in {"none", "stopped"}
        /\ IF connected
           THEN /\ tcp_streams' = tcp_streams \cup {p}
                /\ connections' = MapInsert(connections, p, PeerConnection(p, now))
                /\ reader[p].conn < MaxConns
                /\ reader' = [reader EXCEPT ![p] = [pc |-> "spawned",
                                                    conn |-> @.conn + 1,
                                                    frames |-> 0, skipped |-> 0]]
           ELSE UNCHANGED <<tcp_streams, connections, reader>>
        /\ UNCHANGED <<now, extVars, roomVars, protoVars, streams_lock, inbound,
                       is_server, server_handle, call, nlast, cmdVars>>

\* What the opening block of handle_tcp_peer leaves of tcp_streams
\* (networking.rs:257-264): streams.remove(&peer_id).
streams_after_reader_start(streams, peer_id) == streams \ {peer_id}

\* handle_tcp_peer starts (networking.rs:252-266).
ReaderStart ==
    \E p \in PeerIds :
        /\ reader[p].pc = "spawned"
        /\ streams_lock = "free"
        /\ tcp_streams' = streams_after_reader_start(tcp_streams, p)
        /\ reader' = [reader EXCEPT ![p].pc =
                         IF p \in tcp_streams THEN "reading" ELSE "stopped"]
        /\ UNCHANGED <<now, extVars, roomVars, protoVars, streams_lock, connections,
                       inbound, is_server, server_handle, call, nlast,
                       cmdVars>>

\* A slip: the message is put at the head of the queue.
forward_to_front(queue, message) == <<message>> \o queue

\* message_sender.send(message) (networking.rs:281): the message joins the
\* end of the unbounded channel. A message is written <<peer, c, n>>: the
\* n-th frame read from the stream of the peer's c-th connection.
forward(queue, message) == Append(queue, message)

\* One round of the reader loop (networking.rs:268-307) that reads a frame
\* which decodes: the message is forwarded to the inbound queue.
ReaderForward ==
    \E p \in PeerIds :
        /\ reader[p].pc = "reading"
        /\ reader[p].frames < MaxFrames
        /\ Len(inbound) < MaxInbound
        /\ inbound' = forward(inbound,
                               <<p, reader[p].conn, reader[p].frames + 1>>)
        /\ reader' = [reader EXCEPT ![p].frames = @ + 1]
        /\ UNCHANGED <<now, extVars, roomVars, protoVars, tcp_streams, streams_lock,
                       connections, is_server, server_handle, call, nlast,
                       cmdVars>>

\* A round that reads a frame which is not UTF-8 or not a NetworkMessage
\* (networking.rs:286-293): it is logged and the loop goes on.
ReaderSkip ==
    \E p \in PeerIds, frame \in {"invalid_utf8", "invalid_json"} :
        /\ reader[p].pc = "reading"
        /\ reader[p].frames < MaxFrames
        /\ reader' = [reader EXCEPT ![p].frames = @ + 1,
                                    ![p].skipped = IF @ = 0
                                                   THEN reader[p].frames + 1
                                                   ELSE @]
        /\ UNCHANGED <<now, extVars, roomVars, protoVars, tcp_streams, streams_lock,
                       connections, inbound, is_server, server_handle, call,
                       nlast, cmdVars>>

\* A round whose read fails (networking.rs:296-305): the loop ends and the
\* task returns, dropping the stream it owns.
ReaderStop ==
    \E p \in PeerIds :
        /\ reader[p].pc = "reading"
        /\ reader' = [reader EXCEPT ![p] = [pc |-> "stopped", conn |-> @.conn,
                                            frames |-> 0, skipped |-> 0]]
        /\ UNCHANGED <<now, extVars, roomVars, protoVars, tcp_streams, streams_lock,
                       connections, inbound, is_server, server_handle, call,
                       nlast, cmdVars>>

\* broadcast_message up to its loop (networking.rs:219-240): the peer ids
\* are collected under the lock.
BroadcastMessage ==
    /\ call.op = "none"
    /\ streams_lock = "free"
    /\ call' = [NoCall EXCEPT !.op = "broadcast_message",
                              !.snapshot = tcp_streams, !.pending = tcp_streams]
    /\ nlast' = NoResult
    /\ UNCHANGED <<now, extVars, roomVars, protoVars, tcp_streams, streams_lock,
                   connections, reader, inbound, is_server, server_handle,
                   cmdVars>>

\* A send_to_peer called from outside broadcast_message.
SendToPeer ==
    \E p \in PeerIds :
        /\ call.op = "none"
        /\ call' = [NoCall EXCEPT !.op = "send_to_peer",
                                  !.snapshot = {p}, !.pending = {p}]
        /\ nlast' = NoResult
        /\ UNCHANGED <<now, extVars, roomVars, protoVars, tcp_streams, streams_lock,
                       connections, reader, inbound, is_server, server_handle,
                       cmdVars>>

\* A slip: broadcast_message returns the first error (a `?` on the send).
after_send_propagate(c, peer_id, result) ==
    [c EXCEPT !.cur = NONE,
              !.failed = IF result = "Ok" THEN @ ELSE @ \cup {peer_id},
              !.pending = IF result = "Ok" THEN @ ELSE {},
              !.ret = IF result = "Ok" THEN @ ELSE result]

\* What the caller of send_to_peer does with its result: broadcast_message
\* logs an error and goes on to the next peer id (networking.rs:242-247);
\* a direct call returns it.
after_send(c, peer_id, result) ==
    [c EXCEPT !.cur = NONE,
              !.failed = IF result = "Ok" THEN @ ELSE @ \cup {peer_id},
              !.ret = IF c.op = "send_to_peer" THEN result ELSE @]

\* send_to_peer takes the lock and looks the peer up (networking.rs:317-318,
\* 323-325).
SendLock ==
    \E p \in call.pending :
        /\ call.cur = NONE
        /\ streams_lock = "free"
        /\ LET c1 == [call EXCEPT !.pending = @ \ {p}, !.attempted = @ \cup {p}]
           IN  IF p \in tcp_streams
               THEN /\ streams_lock' = "send_to_peer"
                    /\ call' = [c1 EXCEPT !.cur = p]
               ELSE /\ call' = after_send(c1, p, "PeerNotFound")
                    /\ UNCHANGED streams_lock
        /\ UNCHANGED <<now, extVars, roomVars, protoVars, tcp_streams, connections,
                       reader, inbound, is_server, server_handle, nlast,
                       cmdVars>>

\* The two writes of send_to_peer end, the lock still held
\* (networking.rs:319-322).
SendWrite ==
    \E result \in {"Ok", "IoError"} :
        /\ call.cur # NONE
        /\ streams_lock' = "free"
        /\ call' = after_send(call, call.cur, result)
        /\ UNCHANGED <<now, extVars, roomVars, protoVars, tcp_streams, connections,
                       reader, inbound, is_server, server_handle, nlast,
                       cmdVars>>

\* broadcast_message returns Ok(()) after its loop (networking.rs:249); a
\* direct send_to_peer returns its result.
CallReturn ==
    /\ call.op # "none"
    /\ call.pending = {}
    /\ call.cur = NONE
    /\ nlast' = [op |-> call.op, snapshot |-> call.snapshot,
                 attempted |-> call.attempted, failed |-> call.failed,
                 ret |-> call.ret]
    /\ call' = NoCall
    /\ UNCHANGED <<now, extVars, roomVars, protoVars, tcp_streams, streams_lock,
                   connections, reader, inbound, is_server, server_handle,
                   cmdVars>>

\* disconnect_all (networking.rs:381-393).
DisconnectAll ==
    /\ call.op = "none"
    /\ connections' = << >>
    /\ is_server' = FALSE
    /\ UNCHANGED <<now, extVars, roomVars, protoVars, tcp_streams, streams_lock,
                   reader, inbound, server_handle, call, nlast, cmdVars>>

\* The connection registry, the reader tasks and the senders. (The rounds of
\* a reader that read a frame touch only the inbound queue; they are in
\* NextInbound.)
NextNet ==
    \/ StartServer
    \/ AcceptConnection
    \/ ConnectToPeer
    \/ ReaderStart
    \/ ReaderStop
    \/ BroadcastMessage
    \/ SendToPeer
    \/ SendLock
    \/ SendWrite
    \/ CallReturn
    \/ DisconnectAll

\* The outbound connections and their reader tasks alone, with the frames
\* they read. (The reader task of an accepted connection runs the same
\* handle_tcp_peer.)
NextInbound ==
    \/ ConnectToPeer
    \/ ReaderStart
    \/ ReaderForward
    \/ ReaderSkip
    \/ ReaderStop

(***************************************************************************)
(* Names in a room: users that ask for the creator's name, or for a name   *)
(* of the form the collision rule produces.                                *)
(***************************************************************************)
\* The users that join: those of UserIds and one more.
NameUserIds == UserIds \cup {"u4"}
BaseName == NameOf(CreatorId)
\* The names asked for: the creator's name B, B-2 .. B-<u32::MAX>, and B-02.
NameInputs ==
    {BaseName, BaseName \o <<"-", "0", "2">>}
        \cup {BaseName \o <<"-">> \o format_u32(n) : n \in 2..U32_MAX}

\* add_user of a user built by User::new (user.rs:19-34) with a name of
\* NameInputs, or decoded from a UserJoined payload (main.rs:93-96).
AddNamedUser ==
    \E id \in NameUserIds, name \in NameInputs :
        \E res \in add_user(room, id, User(name, AddrOf(id), TRUE, now)) :
            /\ room' = res.room
            /\ last' = [op |-> IF res.panicked THEN "panic" ELSE "add_user",
                        ret |-> res.ok, elected |-> FALSE]
            /\ UNCHANGED <<now, added, protoVars, netVars, extVars, cmdVars>>

NextNames ==
    \/ AddNamedUser
    \/ RemoveUser

\* The name that every joining user asks for in a run of joins.
SameNames == {<<"B">>, <<"B", "-", "x">>}

\* The users that joined after the creator.
Joined == DOMAIN room.users \ {CreatorId}

\* add_user of a user with a new id who asks for the name the users before
\* asked for (main.rs:93-96); time may have passed since (Tick).
AddSameName ==
    \E id \in NameUserIds \ DOMAIN room.users, name \in SameNames :
        /\ Joined # {} => \E u \in Joined : room.users[u].name = name
        /\ \E res \in add_user(room, id, User(name, AddrOf(id), TRUE, now)) :
               /\ room' = res.room
               /\ last' = [op |-> IF res.panicked THEN "panic" ELSE "add_user",
                           ret |-> res.ok, elected |-> FALSE]
        /\ UNCHANGED <<now, added, protoVars, netVars, extVars, cmdVars>>

NextSameName ==
    \/ AddSameName
    \/ Tick

(***************************************************************************)
(* The periodic cleanup of a room, with ages that are not whole minutes.   *)
(***************************************************************************)
\* Time that passes between two operations: 5 minutes and 30 seconds.
HalfMinuteSteps == {2 * RECENT_MINUTES + 1}

TickHalfMinute ==
    \E d \in HalfMinuteSteps :
        /\ now + d <= MaxNow
        /\ now' = now + d
        /\ last' = Last("tick", TRUE, FALSE)
        /\ UNCHANGED <<room, added, protoVars, netVars, extVars, cmdVars>>

NextCleanup ==
    \/ TickHalfMinute
    \/ Tick
    \/ AddUser
    \/ MarkUserOnline
    \/ CleanupOfflineUsers

(***************************************************************************)
(* The chat history of a room. A message is written as its number in the   *)
(* order of the add_message calls.                                         *)
(***************************************************************************)
AddMessage ==
    /\ added < MaxAdded
    /\ room' = add_message(room, added + 1)
    /\ added' = added + 1
    /\ last' = Last("add_message", TRUE, FALSE)
    /\ UNCHANGED <<now, protoVars, netVars, extVars, cmdVars>>

NextMessages ==
    \/ AddMessage

(***************************************************************************)
(* The operations of a room that do not run the election.                  *)
(***************************************************************************)
\* Messages added in this specification.
MaxFewAdded == 1
\* networking.rs:13-17.
Protocols == {"TCP", "WebSocket", "WebRTC"}

AddFewMessages == added < MaxFewAdded /\ AddMessage

SwitchProtocol ==
    \E new_protocol \in Protocols :
        /\ room' = switch_protocol(room, new_protocol)
        /\ last' = Last("switch_protocol", TRUE, FALSE)
        /\ UNCHANGED <<now, added, protoVars, netVars, extVars, cmdVars>>

NextFrame ==
    \/ AddUser
    \/ RemoveUser
    \/ UpdatePing
    \/ MarkUserOffline
    \/ MarkUserOnline
    \/ AddFewMessages
    \/ SwitchProtocol

(***************************************************************************)
(* join_party (commands.rs:85-217).                                        *)
(*                                                                         *)
(* The command locks state.networking (commands.rs:136) and tries the      *)
(* peers of the invite one after the other; each connect_to_peer is a      *)
(* suspension point. When a peer has been connected the command goes on to *)
(* commands.rs:198, where it locks state.networking again while the guard  *)
(* of commands.rs:136 is still alive (it is shadowed there, not dropped):  *)
(* the tokio Mutex is not reentrant, so the command waits there.           *)
(***************************************************************************)
\* An invite lists no more than MaxInvitePeers addresses.
MaxInvitePeers == 3

\* InviteData::peer_addresses of the invites that are joined (invite.rs:12).
InvitePeerLists ==
    UNION {[1..n -> OutboundPeers] : n \in 0..MaxInvitePeers}

\* What ends join_party before it connects (commands.rs:93-132): a party is
\* active, the code does not parse, the invite is expired, no user is set.
JoinPrechecks == {"Ok", "AlreadyInParty", "InvalidInvite", "Expired", "NoUser"}

NoJoin == [pc |-> "none", peer_addresses |-> << >>, next |-> 1,
           attempted |-> << >>, results |-> << >>, connected |-> FALSE,
           connection_errors |-> << >>, ret |-> "none"]

InitJoin == join = NoJoin

\* InviteData::get_primary_peer (invite.rs:59-61): "none" for None.
get_primary_peer(peer_addresses) ==
    IF Len(peer_addresses) = 0 THEN NONE ELSE peer_addresses[1]

\* InviteData::get_fallback_peers (invite.rs:63-69).
get_fallback_peers(peer_addresses) ==
    IF Len(peer_addresses) > 1
    THEN SubSeq(peer_addresses, 2, Len(peer_addresses))
    ELSE << >>

\* The peer of the next attempt: the primary peer first (commands.rs:141),
\* then the fallback peers in their order (commands.rs:160-163).
next_peer(j) ==
    IF j.next = 1
    THEN get_primary_peer(j.peer_addresses)
    ELSE get_fallback_peers(j.peer_addresses)[j.next - 1]

\* A slip: the failure of a fallback peer is not recorded.
after_connect_fallback_unrecorded(j, ok) ==
    LET peer == next_peer(j)
    IN  [j EXCEPT !.attempted = Append(@, peer),
                  !.results = Append(@, ok),
                  !.connected = ok,
                  !.connection_errors =
                      IF ok \/ j.next > 1 THEN @
                      ELSE Append(@, <<"Primary", peer>>),
                  !.next = @ + 1]

\* The arms of the two matches on connect_to_peer (commands.rs:143-153,
\* 165-176): Ok sets connected, Err pushes a message that names the peer.
after_connect(j, ok) ==
    LET peer == next_peer(j)
    IN  [j EXCEPT !.attempted = Append(@, peer),
                  !.results = Append(@, ok),
                  !.connected = ok,
                  !.connection_errors =
                      IF ok THEN @
                      ELSE Append(@, <<IF j.next = 1 THEN "Primary"
                                       ELSE "Fallback", peer>>),
                  !.next = @ + 1]

\* Where join_party goes when an attempt has returned, or when there is
\* none to make (commands.rs:159, 163, 169, 180-198): on to the next
\* fallback peer, out with the collected errors, or on to commands.rs:198.
join_continue(j) ==
    IF j.connected THEN [j EXCEPT !.pc = "lock_networking"]
    ELSE IF j.next > Len(j.peer_addresses)
         THEN [j EXCEPT !.pc = "returned", !.ret = "ConnectivityError"]
         ELSE [j EXCEPT !.pc = "connect_to_peer"]

\* join_party up to its first connect_to_peer (commands.rs:85-143).
JoinParty ==
    \E peer_addresses \in InvitePeerLists, pre \in JoinPrechecks :
        /\ join.pc \in {"none", "returned"}
        /\ join' = IF pre # "Ok"
                   THEN [NoJoin EXCEPT !.pc = "returned", !.ret = pre,
                                       !.peer_addresses = peer_addresses]
                   ELSE join_continue([NoJoin EXCEPT
                                           !.peer_addresses = peer_addresses,
                                           !.ret = "pending"])
        /\ UNCHANGED <<now, roomVars, protoVars, netVars, marked_offline, cmd, invite,
                       measurements, cmdVars>>

\* A connect_to_peer of join_party returns (commands.rs:143, 165); with Ok
\* it has done what connect_tcp does (networking.rs:175-207).
JoinConnectReturns ==
    \E ok \in BOOLEAN :
        LET p == next_peer(join)
        IN  /\ join.pc = "connect_to_peer"
            /\ join' = join_continue(after_connect(join, ok))
            /\ IF ok
               THEN /\ tcp_streams' = tcp_streams \cup {p}
                    /\ connections' =
                           MapInsert(connections, p, PeerConnection(p, now))
                    /\ reader' = [reader EXCEPT ![p] =
                                      [pc |-> "spawned", conn |-> @.conn + 1,
                                       frames |-> 0, skipped |-> 0]]
               ELSE UNCHANGED <<tcp_streams, connections, reader>>
            /\ UNCHANGED <<now, roomVars, protoVars, streams_lock, inbound,
                           is_server, server_handle, call, nlast, marked_offline, cmd,
                           invite,
                           measurements, cmdVars>>

NextJoin ==
    \/ JoinParty
    \/ JoinConnectReturns

(***************************************************************************)
(* InviteData (invite.rs). Text is a sequence of one-character strings; a  *)
(* Uuid, an IP address and a port are written with one or two characters   *)
(* each, and a timestamp as the decimal digits of its tick.                *)
(***************************************************************************)
\* The longest room name and creator name of an invite.
MaxNameLen == 2
\* An invite made here lists no more than MaxInviteAddrs addresses.
MaxInviteAddrs == 2

\* The printable ASCII characters, in the order of their codes 32..126
\* (the grave accent, code 96, by its name).
Printable ==
    <<" ", "!", "\"", "#", "$", "%", "&", "'", "(", ")", "*", "+", ",",
      "-", ".", "/", "0", "1", "2", "3", "4", "5", "6", "7", "8", "9", ":",
      ";", "<", "=", ">", "?", "@", "A", "B", "C", "D", "E", "F", "G", "H",
      "I", "J", "K", "L", "M", "N", "O", "P", "Q", "R", "S", "T", "U", "V",
      "W", "X", "Y", "Z", "[", "\\", "]", "^", "_", "grave", "a", "b", "c",
      "d", "e", "f", "g", "h", "i", "j", "k", "l", "m", "n", "o", "p", "q",
      "r", "s", "t", "u", "v", "w", "x", "y", "z", "{", "|", "}", "~">>

\* The code of a printable ASCII character.
AsciiCode ==
    [c \in {Printable[k] : k \in 1..Len(Printable)} |->
        31 + (CHOOSE k \in 1..Len(Printable) : Printable[k] = c)]

\* str::as_bytes (invite.rs:37), for text of printable ASCII characters.
as_bytes(text) == [i \in 1..Len(text) |-> AsciiCode[text[i]]]

\* String::from_utf8 (invite.rs:48): the text of the bytes; ok is FALSE for
\* bytes that are not the printable ASCII the encoder writes.
from_utf8(bytes) ==
    IF \A i \in 1..Len(bytes) : bytes[i] \in 32..126
    THEN [ok |-> TRUE, text |-> [i \in 1..Len(bytes) |-> Printable[bytes[i] - 31]]]
    ELSE [ok |-> FALSE, text |-> << >>]

\* The alphabet of general_purpose::URL_SAFE_NO_PAD (invite.rs:37, 47).
UrlSafeAlphabet ==
    <<"A", "B", "C", "D", "E", "F", "G", "H", "I", "J", "K", "L", "M", "N",
      "O", "P", "Q", "R", "S", "T", "U", "V", "W", "X", "Y", "Z", "a", "b",
      "c", "d", "e", "f", "g", "h", "i", "j", "k", "l", "m", "n", "o", "p",
      "q", "r", "s", "t", "u", "v", "w", "x", "y", "z", "0", "1", "2", "3",
      "4", "5", "6", "7", "8", "9", "-", "_">>

\* The character of a 6-bit value, and the 6-bit value of a character.
sextet_char(v) == UrlSafeAlphabet[v + 1]
SextetValues ==
    [c \in {UrlSafeAlphabet[k] : k \in 1..64} |->
        (CHOOSE k \in 1..64 : UrlSafeAlphabet[k] = c) - 1]
sextet_value(c) == SextetValues[c]

\* URL_SAFE_NO_PAD.encode (invite.rs:37): three bytes make four characters;
\* one or two bytes left over make two or three, and no "=" is added.
RECURSIVE base64_encode(_)
base64_encode(bytes) ==
    IF Len(bytes) = 0 THEN << >>
    ELSE IF Len(bytes) = 1
    THEN <<sextet_char(bytes[1] \div 4), sextet_char((bytes[1] % 4) * 16)>>
    ELSE IF Len(bytes) = 2
    THEN LET n == bytes[1] * 256 + bytes[2]
         IN  <<sextet_char(n \div 1024), sextet_char((n \div 16) % 64),
               sextet_char((n % 16) * 4)>>
    ELSE LET n == bytes[1] * 65536 + bytes[2] * 256 + bytes[3]
         IN  <<sextet_char(n \div 262144), sextet_char((n \div 4096) % 64),
               sextet_char((n \div 64) % 64), sextet_char(n % 64)>>
             \o base64_encode(SubSeq(bytes, 4, Len(bytes)))

\* The bytes of characters of the alphabet whose number and last bits are
\* right.
RECURSIVE base64_bytes(_)
base64_bytes(code) ==
    IF Len(code) = 0 THEN << >>
    ELSE IF Len(code) = 2
    THEN <<sextet_value(code[1]) * 4 + sextet_value(code[2]) \div 16>>
    ELSE IF Len(code) = 3
    THEN LET n == sextet_value(code[1]) * 1024 + sextet_value(code[2]) * 16
                  + sextet_value(code[3]) \div 4
         IN  <<n \div 256, n % 256>>
    ELSE LET n == sextet_value(code[1]) * 262144 + sextet_value(code[2]) * 4096
                  + sextet_value(code[3]) * 64 + sextet_value(code[4])
         IN  <<n \div 65536, (n \div 256) % 256, n % 256>>
             \o base64_bytes(SubSeq(code, 5, Len(code)))

\* URL_SAFE_NO_PAD.decode (invite.rs:47): Err for a character outside the
\* alphabet ("=" included), for a length of 1 modulo 4, and for last bits
\* that are not zero.
base64_decode(code) ==
    LET n == Len(code)
        in_alphabet == \A i \in 1..n : code[i] \in DOMAIN SextetValues
        canonical ==
            CASE n % 4 = 0 -> TRUE
              [] n % 4 = 1 -> FALSE
              [] n % 4 = 2 -> sextet_value(code[n]) % 16 = 0
              [] n % 4 = 3 -> sextet_value(code[n]) % 4 = 0
    IN  IF in_alphabet /\ canonical
        THEN [ok |-> TRUE, bytes |-> base64_bytes(code)]
        ELSE [ok |-> FALSE, bytes |-> << >>]

\* A slip: a backslash is written as it is.
RECURSIVE escape_quotes_only(_)
escape_quotes_only(s) ==
    IF Len(s) = 0 THEN << >>
    ELSE (IF Head(s) = "\"" THEN <<"\\", "\"">> ELSE <<Head(s)>>)
         \o escape_quotes_only(Tail(s))

\* How serde_json writes the characters of a string (invite.rs:36): a quote
\* and a backslash are escaped with a backslash.
RECURSIVE escape(_)
escape(s) ==
    IF Len(s) = 0 THEN << >>
    ELSE (IF Head(s) = "\"" THEN <<"\\", "\"">>
          ELSE IF Head(s) = "\\" THEN <<"\\", "\\">>
          ELSE <<Head(s)>>)
         \o escape(Tail(s))

json_string(s) == <<"\"">> \o escape(s) \o <<"\"">>

\* The text of a Uuid, of a Protocol and of a timestamp (the Serialize
\* implementations behind invite.rs:7-15).
uuid_text(id) == IF id = "r1" THEN <<"r", "1">> ELSE <<"r", "2">>
protocol_text(p) ==
    CASE p = "TCP" -> <<"T", "C", "P">>
      [] p = "WebSocket" -> <<"W", "e", "b", "S", "o", "c", "k", "e", "t">>
      [] p = "WebRTC" -> <<"W", "e", "b", "R", "T", "C">>
timestamp_text(t) == format_u32(t)

\* SocketAddr (invite.rs:12) and its Display: ip:port for V4, [ip]:port for
\* V6.
InviteAddrs ==
    {[kind |-> "V4", ip |-> "4", port |-> 8],
     [kind |-> "V6", ip |-> "6", port |-> 10]}
addr_text(a) ==
    IF a.kind = "V4" THEN <<a.ip, ":">> \o format_u32(a.port)
    ELSE <<"[", a.ip, "]", ":">> \o format_u32(a.port)

\* The elements of an array, separated by commas.
RECURSIVE json_elements(_)
json_elements(addrs) ==
    IF Len(addrs) = 0 THEN << >>
    ELSE json_string(addr_text(Head(addrs)))
         \o (IF Len(addrs) > 1 THEN <<",">> ELSE << >>)
         \o json_elements(Tail(addrs))

\* The keys of the object, as serde_json writes them.
KeyRoomId ==
    <<"{", "\"", "r", "o", "o", "m", "_", "i", "d", "\"", ":">>
KeyRoomName ==
    <<",", "\"", "r", "o", "o", "m", "_", "n", "a", "m", "e", "\"", ":">>
KeyCreatorName ==
    <<",", "\"", "c", "r", "e", "a", "t", "o", "r", "_", "n", "a", "m",
      "e", "\"", ":">>
KeyPeerAddresses ==
    <<",", "\"", "p", "e", "e", "r", "_", "a", "d", "d", "r", "e", "s",
      "s", "e", "s", "\"", ":">>
KeyProtocol ==
    <<",", "\"", "p", "r", "o", "t", "o", "c", "o", "l", "\"", ":">>
KeyCreatedAt ==
    <<",", "\"", "c", "r", "e", "a", "t", "e", "d", "_", "a", "t", "\"",
      ":">>

\* serde_json::to_string(self) (invite.rs:36): the fields in the order of
\* the struct (invite.rs:8-15).
to_string(x) ==
    KeyRoomId \o json_string(uuid_text(x.room_id))
    \o KeyRoomName \o json_string(x.room_name)
    \o KeyCreatorName \o json_string(x.creator_name)
    \o KeyPeerAddresses \o <<"[">> \o json_elements(x.peer_addresses) \o <<"]">>
    \o KeyProtocol \o json_string(protocol_text(x.protocol))
    \o KeyCreatedAt \o json_string(timestamp_text(x.created_at))
    \o <<"}">>

\* The scheme of an invite code (invite.rs:38, 44).
Scheme ==
    <<"s", "h", "o", "r", "t", "g", "a", "p", ":", "/", "/">>

\* InviteData::generate_invite_code (invite.rs:35-39).
generate_invite_code(x) == Scheme \o base64_encode(as_bytes(to_string(x)))

\* str::strip_prefix(..).unwrap_or(..) (invite.rs:43-45).
strip_prefix(s, p) == IF starts_with(s, p) THEN SubSeq(s, Len(p) + 1, Len(s)) ELSE s

\* Reading JSON: a position is an index into the text, 0 after an error.
expect(text, i, lit) ==
    IF i > 0 /\ i + Len(lit) - 1 <= Len(text)
             /\ SubSeq(text, i, i + Len(lit) - 1) = lit
    THEN i + Len(lit)
    ELSE 0

\* The characters of a string up to its closing quote, unescaped.
RECURSIVE read_chars(_, _, _)
read_chars(text, i, acc) ==
    IF i > Len(text) THEN [next |-> 0, value |-> << >>]
    ELSE IF text[i] = "\"" THEN [next |-> i + 1, value |-> acc]
    ELSE IF text[i] = "\\"
    THEN IF i + 1 <= Len(text) /\ text[i + 1] \in {"\"", "\\"}
         THEN read_chars(text, i + 2, Append(acc, text[i + 1]))
         ELSE [next |-> 0, value |-> << >>]
    ELSE read_chars(text, i + 1, Append(acc, text[i]))

read_string(text, i) ==
    IF i > 0 /\ i <= Len(text) /\ text[i] = "\""
    THEN read_chars(text, i + 1, << >>)
    ELSE [next |-> 0, value |-> << >>]

\* The strings of an array whose "[" has been read.
RECURSIVE read_elements(_, _, _)
read_elements(text, i, acc) ==
    LET s == read_string(text, i)
    IN  IF s.next = 0 \/ s.next > Len(text) THEN [next |-> 0, value |-> << >>]
        ELSE IF text[s.next] = ","
        THEN read_elements(text, s.next + 1, Append(acc, s.value))
        ELSE IF text[s.next] = "]"
        THEN [next |-> s.next + 1, value |-> Append(acc, s.value)]
        ELSE [next |-> 0, value |-> << >>]

read_array(text, i) ==
    IF i = 0 \/ i > Len(text) THEN [next |-> 0, value |-> << >>]
    ELSE IF text[i] = "]" THEN [next |-> i + 1, value |-> << >>]
    ELSE read_elements(text, i, << >>)

\* The values of the texts; the kind of an address is "Err" for a text
\* that is none.
RoomIdsOfText(text) == {id \in RoomIds : uuid_text(id) = text}
ProtocolsOfText(text) ==
    {p \in {"TCP", "WebSocket", "WebRTC"} : protocol_text(p) = text}
addr_of_text(text) ==
    IF /\ Len(text) >= 3 /\ text[2] = ":"
       /\ \A k \in 3..Len(text) : IsDigit(text[k])
    THEN [kind |-> "V4", ip |-> text[1],
          port |-> digits_value(SubSeq(text, 3, Len(text)))]
    ELSE IF /\ Len(text) >= 5 /\ text[1] = "[" /\ text[3] = "]" /\ text[4] = ":"
            /\ \A k \in 5..Len(text) : IsDigit(text[k])
    THEN [kind |-> "V6", ip |-> text[2],
          port |-> digits_value(SubSeq(text, 5, Len(text)))]
    ELSE [kind |-> "Err", ip |-> "", port |-> 0]

\* serde_json::from_str::<InviteData> (invite.rs:49), of an object written
\* in the order of the struct without white space; ok is FALSE otherwise.
from_str(text) ==
    LET room_id == read_string(text, expect(text, 1, KeyRoomId))
        room_name == read_string(text, expect(text, room_id.next, KeyRoomName))
        creator_name ==
            read_string(text, expect(text, room_name.next, KeyCreatorName))
        peer_addresses ==
            read_array(text, expect(text, expect(text, creator_name.next,
                                                 KeyPeerAddresses), <<"[">>))
        protocol == read_string(text, expect(text, peer_addresses.next, KeyProtocol))
        created_at == read_string(text, expect(text, protocol.next, KeyCreatedAt))
        end == expect(text, created_at.next, <<"}">>)
    IN  IF /\ end = Len(text) + 1
           /\ RoomIdsOfText(room_id.value) # {}
           /\ \A k \in 1..Len(peer_addresses.value) :
                  addr_of_text(peer_addresses.value[k]).kind # "Err"
           /\ ProtocolsOfText(protocol.value) # {}
           /\ Len(created_at.value) > 0
           /\ \A k \in 1..Len(created_at.value) : IsDigit(created_at.value[k])
        THEN [ok |-> TRUE,
              value |->
                  [room_id |-> CHOOSE id \in RoomIdsOfText(room_id.value) : TRUE,
                   room_name |-> room_name.value,
                   creator_name |-> creator_name.value,
                   peer_addresses |->
                       [k \in 1..Len(peer_addresses.value) |->
                           addr_of_text(peer_addresses.value[k])],
                   protocol |-> CHOOSE p \in ProtocolsOfText(protocol.value) : TRUE,
                   created_at |-> digits_value(created_at.value)]]
        ELSE [ok |-> FALSE, value |-> << >>]

\* InviteData::parse_invite_code (invite.rs:41-52); ok is FALSE for an Err.
parse_invite_code(invite_code) ==
    LET code == strip_prefix(invite_code, Scheme)
        decoded_bytes == base64_decode(code)
        json_data == from_utf8(decoded_bytes.bytes)
    IN  IF decoded_bytes.ok /\ json_data.ok THEN from_str(json_data.text)
        ELSE [ok |-> FALSE, value |-> << >>]

\* The characters of the names, and the names.
NameChars == {"a", "\"", "\\"}
InviteNames == UNION {[1..n -> NameChars] : n \in 0..MaxNameLen}

\* The InviteData values that are encoded: any names, addresses as
\* SocketAddr::new makes them (commands.rs:311), one creation time or
\* another.
InviteValues ==
    [room_id : {"r1"},
     room_name : InviteNames,
     creator_name : {<<"a">>, <<"\\", "\"">>},
     peer_addresses : UNION {[1..n -> InviteAddrs] : n \in 0..MaxInviteAddrs},
     protocol : {"TCP", "WebSocket", "WebRTC"},
     created_at : {0, MaxNow}]

\* An InviteData value is made (invite.rs:18-33, 102-109).
NewInvite ==
    \E x \in InviteValues :
        /\ invite.op = "none"
        /\ invite' = [op |-> "created", x |-> x]
        /\ UNCHANGED <<now, roomVars, protoVars, netVars, marked_offline, join, cmd, measurements,
                       cmdVars>>

\* generate_invite_code is called on it.
GenerateInviteCode ==
    /\ invite.op = "created"
    /\ invite' = [op |-> "generate_invite_code", x |-> invite.x,
                  code |-> generate_invite_code(invite.x)]
    /\ UNCHANGED <<now, roomVars, protoVars, netVars, marked_offline, join, cmd, measurements,
                   cmdVars>>

\* parse_invite_code is called on the code, and on the code without its
\* scheme.
ParseInviteCode ==
    /\ invite.op = "generate_invite_code"
    /\ invite' = [op |-> "parse_invite_code", x |-> invite.x, code |-> invite.code,
                  parsed |-> parse_invite_code(invite.code),
                  parsed_bare |-> parse_invite_code(strip_prefix(invite.code, Scheme))]
    /\ UNCHANGED <<now, roomVars, protoVars, netVars, marked_offline, join, cmd, measurements,
                   cmdVars>>

NextInvite ==
    \/ NewInvite
    \/ GenerateInviteCode
    \/ ParseInviteCode

\* An invite is at most MaxAge ticks old when its age is asked for.
MaxAge == 250

\* The largest i64, for the u64 whose largest value is U64_MAX.
I64_MAX == (U64_MAX - 1) \div 2

\* max_age_hours as i64 (invite.rs:55): the cast keeps the bits, so a value
\* above i64::MAX becomes negative.
as_i64(v) == IF v > I64_MAX THEN v - (U64_MAX + 1) ELSE v

\* InviteData::is_expired (invite.rs:54-57) at time t.
is_expired(x, max_age_hours, t) ==
    LET max_age == Hours(as_i64(max_age_hours))
    IN  t - x.created_at > max_age

\* An InviteData value with a creation time in the past (invite.rs:102-109).
NewAgedInvite ==
    \E age \in 0..MaxAge :
        /\ invite.op = "none"
        /\ invite' = [op |-> "created",
                      x |-> [room_id |-> "r1", room_name |-> <<"a">>,
                             creator_name |-> <<"a">>, peer_addresses |-> << >>,
                             protocol |-> "TCP", created_at |-> now - age]]
        /\ UNCHANGED <<now, roomVars, protoVars, netVars, marked_offline, join, cmd, measurements,
                       cmdVars>>

\* is_expired is called on it.
IsExpired ==
    \E max_age_hours \in 0..U64_MAX :
        /\ invite.op = "created"
        /\ invite' = [op |-> "is_expired", x |-> invite.x,
                      max_age_hours |-> max_age_hours,
                      ret |-> is_expired(invite.x, max_age_hours, now)]
        /\ UNCHANGED <<now, roomVars, protoVars, netVars, marked_offline, join, cmd, measurements,
                       cmdVars>>

NextExpiry ==
    \/ NewAgedInvite
    \/ IsExpired

(***************************************************************************)
(* sync_messages (commands.rs:488-517) on the active party. A chat message *)
(* is a record of its number in the order of arrival and its timestamp,    *)
(* which for a message of a peer is the peer's (main.rs:80-83).            *)
(***************************************************************************)
\* Chat messages that arrive before and between the syncs.
MaxSyncMessages == 3
\* The timestamps of chat messages are 0..MaxStamp.
MaxStamp == 2

\* Room::id of the active party (room.rs:21), and the room_id arguments.
ActiveRoomId == "r1"
SyncRoomIds == RoomIds \cup {"not-a-uuid"}

\* cmd before any command has returned; before is the message list the
\* command found.
NoCmd == [op |-> "none", room_id |-> NONE, ret |-> "Ok", returned |-> << >>,
          before |-> << >>]
InitCmd == cmd = NoCmd

\* Where a message goes in a list sorted by timestamp: behind the messages
\* that are not later than it.
insert_by_timestamp(sorted, m) ==
    LET k == Cardinality({i \in 1..Len(sorted) : sorted[i].timestamp <= m.timestamp})
    IN  SubSeq(sorted, 1, k) \o <<m>> \o SubSeq(sorted, k + 1, Len(sorted))

\* room.messages.sort_by(|a, b| a.timestamp.cmp(&b.timestamp))
\* (commands.rs:504): a stable sort.
RECURSIVE sort_by_timestamp(_)
sort_by_timestamp(messages) ==
    IF Len(messages) = 0 THEN << >>
    ELSE insert_by_timestamp(
             sort_by_timestamp(SubSeq(messages, 1, Len(messages) - 1)),
             messages[Len(messages)])

\* A slip: the sorted list is returned and the room keeps its order.
sync_messages_sorts_copy(r, room_id) ==
    IF room_id \notin RoomIds THEN [ret |-> "Err", room |-> r, returned |-> << >>]
    ELSE IF room_id = ActiveRoomId
    THEN [ret |-> "Ok", room |-> r, returned |-> sort_by_timestamp(r.messages)]
    ELSE [ret |-> "Err", room |-> r, returned |-> << >>]

\* sync_messages (commands.rs:489-517): what it returns and the room it
\* leaves. save_to_file writes a file and its failure is only logged
\* (commands.rs:509-511).
sync_messages(r, room_id) ==
    IF room_id \notin RoomIds THEN [ret |-> "Err", room |-> r, returned |-> << >>]
    ELSE IF room_id = ActiveRoomId
    THEN LET sorted == [r EXCEPT !.messages = sort_by_timestamp(r.messages)]
         IN  [ret |-> "Ok", room |-> sorted, returned |-> sorted.messages]
    ELSE [ret |-> "Err", room |-> r, returned |-> << >>]

\* A chat message of a peer arrives and is added (main.rs:80-83).
ReceiveChatMessage ==
    \E timestamp \in 0..MaxStamp :
        /\ added < MaxSyncMessages
        /\ room' = add_message(room, [id |-> added + 1, timestamp |-> timestamp])
        /\ added' = added + 1
        /\ last' = Last("add_message", TRUE, FALSE)
        /\ cmd' = NoCmd
        /\ UNCHANGED <<now, protoVars, netVars, marked_offline, join, invite, measurements,
                       cmdVars>>

SyncMessages ==
    \E room_id \in SyncRoomIds :
        LET res == sync_messages(room, room_id)
        IN  /\ room' = res.room
            /\ cmd' = [op |-> "sync_messages", room_id |-> room_id,
                       ret |-> res.ret, returned |-> res.returned,
                       before |-> room.messages]
            /\ UNCHANGED <<now, last, added, protoVars, netVars, marked_offline, join, invite,
                           measurements, cmdVars>>

NextSync ==
    \/ ReceiveChatMessage
    \/ SyncMessages


NoInvite == [op |-> "none"]
InitInvite == invite = NoInvite

(***************************************************************************)
(* PingManager (ping.rs). An absent Option<u64> is written -1; u64 is the  *)
(* type whose largest value is U64_MAX.                                    *)
(***************************************************************************)
\* The addresses that are measured.
PingAddrs == {"a1", "a2"}
\* The milliseconds a connection attempt that succeeded within its timeout
\* took (ping.rs:67-69, 90-92): far from u64::MAX.
ElapsedMillis == {0, 1}

\* PingManager::new (ping.rs:58-62).
InitPing == measurements = << >>

\* PingMeasurement::new (ping.rs:19-28) at time t.
PingMeasurementNew(peer_addr, t) ==
    [peer_addr |-> peer_addr, tcp_ping |-> -1, app_ping |-> -1,
     webrtc_rtt |-> -1, average_ping |-> -1, timestamp |-> t]

\* The sum of the elements of a sequence.
RECURSIVE SeqSum(_)
SeqSum(values) == IF Len(values) = 0 THEN 0 ELSE Head(values) + SeqSum(Tail(values))

\* The values vector of calculate_average (ping.rs:31-41).
present_values(m) ==
    (IF m.tcp_ping # -1 THEN <<m.tcp_ping>> ELSE << >>)
    \o (IF m.app_ping # -1 THEN <<m.app_ping>> ELSE << >>)
    \o (IF m.webrtc_rtt # -1 THEN <<m.webrtc_rtt>> ELSE << >>)

\* PingMeasurement::calculate_average (ping.rs:30-46). The sum is a u64
\* sum (ping.rs:44): beyond u64::MAX it panics in a build with overflow
\* checks and wraps in a build without. The result tells whether the call
\* panicked, and the measurement it leaves.
calculate_average(m, overflow_checks) ==
    LET values == present_values(m)
        sum == SeqSum(values)
    IN  IF Len(values) = 0 THEN [panicked |-> FALSE, m |-> m]
        ELSE IF sum > U64_MAX /\ overflow_checks THEN [panicked |-> TRUE, m |-> m]
        ELSE [panicked |-> FALSE,
              m |-> [m EXCEPT !.average_ping =
                                  (sum % (U64_MAX + 1)) \div Len(values)]]

\* measurements.entry(addr).or_insert_with(|| PingMeasurement::new(addr))
\* (ping.rs:71-72, 94-95, 115-116, 141-142).
entry_or_insert(ms, addr, t) ==
    IF addr \in DOMAIN ms THEN ms[addr] ELSE PingMeasurementNew(addr, t)

\* What a metric update leaves of the measurements (ping.rs:71-75, 94-98,
\* 115-119): the metric and the timestamp are written, then the average is
\* recomputed. One outcome per build.
update_metric(ms, addr, metric, value, t) ==
    {LET m == [entry_or_insert(ms, addr, t) EXCEPT ![metric] = value,
                                                   !.timestamp = t]
     IN  MapInsert(ms, addr, calculate_average(m, overflow_checks).m)
     : overflow_checks \in BOOLEAN}

\* measure_tcp_ping (ping.rs:64-82): nothing is written when the connection
\* fails or times out.
MeasureTcpPing ==
    \E addr \in PingAddrs, connected \in BOOLEAN, ping_ms \in ElapsedMillis :
        /\ measurements' \in
               IF connected
               THEN update_metric(measurements, addr, "tcp_ping", ping_ms, now)
               ELSE {measurements}
        /\ cmd' = [NoCmd EXCEPT !.op = "measure_tcp_ping"]
        /\ UNCHANGED <<now, roomVars, protoVars, netVars, marked_offline, join, invite,
                       cmdVars>>

\* measure_application_ping (ping.rs:84-105).
MeasureApplicationPing ==
    \E addr \in PingAddrs, connected \in BOOLEAN, ping_ms \in ElapsedMillis :
        /\ measurements' \in
               IF connected
               THEN update_metric(measurements, addr, "app_ping", ping_ms, now)
               ELSE {measurements}
        /\ cmd' = [NoCmd EXCEPT !.op = "measure_application_ping"]
        /\ UNCHANGED <<now, roomVars, protoVars, netVars, marked_offline, join, invite,
                       cmdVars>>

\* update_webrtc_rtt (ping.rs:114-120).
UpdateWebrtcRtt ==
    \E addr \in PingAddrs, rtt_ms \in 0..U64_MAX :
        /\ measurements' \in
               update_metric(measurements, addr, "webrtc_rtt", rtt_ms, now)
        /\ cmd' = [NoCmd EXCEPT !.op = "update_webrtc_rtt"]
        /\ UNCHANGED <<now, roomVars, protoVars, netVars, marked_offline, join, invite,
                       cmdVars>>

\* What measure_all_pings leaves when the addresses of the sequence
\* connected, in that order (ping.rs:139-152): tcp_ping is set to the
\* placeholder 0 (ping.rs:130), the timestamp is left, the average is
\* recomputed.
\* A panic of calculate_average ends the call.
RECURSIVE measure_all(_, _, _)
measure_all(ms, connected, t) ==
    IF Len(connected) = 0 THEN {ms}
    ELSE UNION {LET res == calculate_average(
                               [entry_or_insert(ms, Head(connected), t)
                                   EXCEPT !.tcp_ping = 0],
                               overflow_checks)
                    written == MapInsert(ms, Head(connected), res.m)
                IN  IF res.panicked THEN {written}
                    ELSE measure_all(written, Tail(connected), t)
                : overflow_checks \in BOOLEAN}

\* measure_all_pings (ping.rs:122-155) of two addresses, of which any may
\* fail to connect.
MeasureAllPings ==
    \E addrs \in [1..2 -> PingAddrs], ok \in [1..2 -> BOOLEAN] :
        /\ measurements' \in
               measure_all(measurements,
                           (IF ok[1] THEN <<addrs[1]>> ELSE << >>)
                               \o (IF ok[2] THEN <<addrs[2]>> ELSE << >>),
                           now)
        /\ cmd' = [NoCmd EXCEPT !.op = "measure_all_pings"]
        /\ UNCHANGED <<now, roomVars, protoVars, netVars, marked_offline, join, invite,
                       cmdVars>>

\* cleanup_old_measurements (ping.rs:177-180): the entries whose timestamp
\* is later than the cutoff are kept.
CleanupOldMeasurements ==
    \E max_age_minutes \in 0..U64_MAX :
        LET cutoff == now - Minutes(as_i64(max_age_minutes))
            kept == {a \in DOMAIN measurements : measurements[a].timestamp > cutoff}
        IN  /\ measurements' = [a \in kept |-> measurements[a]]
            /\ cmd' = [NoCmd EXCEPT !.op = "cleanup_old_measurements"]
            /\ UNCHANGED <<now, roomVars, protoVars, netVars, marked_offline, join, invite,
                           cmdVars>>

\* The orders in which a HashMap may yield its values (ping.rs:166).
RECURSIVE values_in_any_order(_)
values_in_any_order(ms) ==
    IF DOMAIN ms = {} THEN {<< >>}
    ELSE UNION {{<<ms[a]>> \o rest :
                    rest \in values_in_any_order(
                                [b \in DOMAIN ms \ {a} |-> ms[b]])}
                : a \in DOMAIN ms}

\* The key of the sort (ping.rs:167): average_ping.unwrap_or(u64::MAX).
ping_sort_key(m) == IF m.average_ping = -1 THEN U64_MAX ELSE m.average_ping

\* Where a measurement goes in a vector sorted by the key: behind the
\* measurements whose key is not greater.
insert_by_ping(sorted, m) ==
    LET k == Cardinality({i \in 1..Len(sorted) :
                             ping_sort_key(sorted[i]) <= ping_sort_key(m)})
    IN  SubSeq(sorted, 1, k) \o <<m>> \o SubSeq(sorted, k + 1, Len(sorted))

\* Vec::sort_by_key (ping.rs:167): a stable sort.
RECURSIVE sort_by_ping(_)
sort_by_ping(v) ==
    IF Len(v) = 0 THEN << >>
    ELSE insert_by_ping(sort_by_ping(SubSeq(v, 1, Len(v) - 1)), v[Len(v)])

\* A slip: the values are returned in the order of the map.
get_sorted_by_ping_unsorted(ms) == values_in_any_order(ms)

\* get_sorted_by_ping (ping.rs:165-169): the vectors it may return.
get_sorted_by_ping(ms) == {sort_by_ping(v) : v \in values_in_any_order(ms)}

\* get_best_peer (ping.rs:171-175): the values it may return, NONE for None.
get_best_peer(ms) ==
    {IF Len(v) = 0 THEN NONE ELSE v[1].peer_addr : v \in get_sorted_by_ping(ms)}

GetSortedByPing ==
    \E v \in get_sorted_by_ping(measurements) :
        /\ cmd' = [NoCmd EXCEPT !.op = "get_sorted_by_ping", !.returned = v]
        /\ UNCHANGED <<now, roomVars, protoVars, netVars, marked_offline, join, invite,
                       measurements, cmdVars>>

GetBestPeer ==
    \E best \in get_best_peer(measurements) :
        /\ cmd' = [NoCmd EXCEPT !.op = "get_best_peer", !.returned = <<best>>]
        /\ UNCHANGED <<now, roomVars, protoVars, netVars, marked_offline, join, invite,
                       measurements, cmdVars>>

NextPing ==
    \/ MeasureTcpPing
    \/ MeasureApplicationPing
    \/ UpdateWebrtcRtt
    \/ MeasureAllPings
    \/ CleanupOldMeasurements
    \/ GetSortedByPing
    \/ GetBestPeer


(***************************************************************************)
(* The peer-health table of the NetworkManager: ping_ms and last_seen of   *)
(* the entries of connections (networking.rs:332-379).                     *)
(***************************************************************************)
\* The pings reported for a peer.
PeerPings == {0, 1}
\* The timeout_minutes asked about (an i64).
HealthTimeouts == {0, 6, 7}

InitHealth == marked_offline = {}

\* NetworkManager::update_ping (networking.rs:332-337) at time t.
peer_update_ping(conns, peer_id, ping_ms, t) ==
    IF peer_id \in DOMAIN conns
    THEN [conns EXCEPT ![peer_id].ping_ms = ping_ms, ![peer_id].last_seen = t]
    ELSE conns

\* A slip: the peer keeps its ping.
mark_peer_offline_keeps_ping(conns, peer_id) == conns

\* mark_peer_offline (networking.rs:339-344).
mark_peer_offline(conns, peer_id) ==
    IF peer_id \in DOMAIN conns
    THEN [conns EXCEPT ![peer_id].ping_ms = -1]
    ELSE conns

\* is_peer_healthy (networking.rs:346-354) at time t.
is_peer_healthy(conns, peer_id, timeout_minutes, t) ==
    IF peer_id \in DOMAIN conns
    THEN /\ num_minutes(t - conns[peer_id].last_seen) < timeout_minutes
         /\ conns[peer_id].ping_ms # -1
    ELSE FALSE

\* cleanup_stale_connections (networking.rs:356-371) at time t.
cleanup_stale_connections(conns, timeout_minutes, t) ==
    LET stale_peers == {id \in DOMAIN conns :
                           num_minutes(t - conns[id].last_seen) > timeout_minutes}
    IN  [id \in DOMAIN conns \ stale_peers |-> conns[id]]

\* get_best_server_candidate (networking.rs:373-379): the values it may
\* return, NONE for None. min_by_key gives the first minimum in the order
\* of the HashMap, which is any order.
get_best_server_candidate(conns) ==
    LET with_ping == {id \in DOMAIN conns : conns[id].ping_ms # -1}
    IN  IF with_ping = {} THEN {NONE}
        ELSE {id \in with_ping :
                 \A other \in with_ping :
                     conns[id].ping_ms <= conns[other].ping_ms}

UpdatePeerPing ==
    \E peer_id \in PeerIds, ping_ms \in PeerPings :
        /\ connections' = peer_update_ping(connections, peer_id, ping_ms, now)
        /\ marked_offline' = marked_offline \ {peer_id}
        /\ cmd' = [op |-> "update_ping", peer_id |-> peer_id]
        /\ UNCHANGED <<now, roomVars, protoVars, tcp_streams, streams_lock,
                       reader, inbound, is_server, server_handle, call, nlast,
                       join, invite, measurements, cmdVars>>

MarkPeerOffline ==
    \E peer_id \in PeerIds :
        /\ connections' = mark_peer_offline(connections, peer_id)
        /\ marked_offline' = marked_offline \cup {peer_id}
        /\ cmd' = [op |-> "mark_peer_offline", peer_id |-> peer_id]
        /\ UNCHANGED <<now, roomVars, protoVars, tcp_streams, streams_lock,
                       reader, inbound, is_server, server_handle, call, nlast,
                       join, invite, measurements, cmdVars>>

IsPeerHealthy ==
    \E peer_id \in PeerIds, timeout_minutes \in HealthTimeouts :
        /\ cmd' = [op |-> "is_peer_healthy", peer_id |-> peer_id,
                   ret |-> is_peer_healthy(connections, peer_id,
                                           timeout_minutes, now)]
        /\ UNCHANGED <<now, roomVars, protoVars, netVars, marked_offline, join,
                       invite, measurements, cmdVars>>

CleanupStaleConnections ==
    \E timeout_minutes \in HealthTimeouts :
        /\ connections' = cleanup_stale_connections(connections,
                                                    timeout_minutes, now)
        /\ cmd' = [op |-> "cleanup_stale_connections", peer_id |-> NONE]
        /\ UNCHANGED <<now, roomVars, protoVars, tcp_streams, streams_lock,
                       reader, inbound, is_server, server_handle, call, nlast,
                       join, invite, measurements, marked_offline, cmdVars>>

GetBestServerCandidate ==
    \E best \in get_best_server_candidate(connections) :
        /\ cmd' = [op |-> "get_best_server_candidate", peer_id |-> NONE,
                   ret |-> best]
        /\ UNCHANGED <<now, roomVars, protoVars, netVars, marked_offline, join,
                       invite, measurements, cmdVars>>

NextHealth ==
    \/ ConnectToPeer
    \/ UpdatePeerPing
    \/ MarkPeerOffline
    \/ IsPeerHealthy
    \/ CleanupStaleConnections
    \/ GetBestServerCandidate
    \/ Tick

(***************************************************************************)
(* The commands on AppState (commands.rs) and the inbound dispatcher        *)
(* (main.rs:69-127), running concurrently. current_party and networking    *)
(* are tokio Mutexes (main.rs:16-20): a lock().await waits until the mutex *)
(* is free, also when the waiting task itself holds it. A step is what a   *)
(* task does from one lock().await that can wait to the next.              *)
(***************************************************************************)
\* Commands and dispatcher rounds started in one run.
MaxInvocations == 4
\* Two command invocations can be in flight, and the dispatcher.
CommandIds == {"c1", "c2"}
DispatcherId == "dispatcher"
TaskIds == CommandIds \cup {DispatcherId}
CommandNames == {"create_party", "join_party", "leave_party", "send_message"}
DispatchKinds == {"ChatMessage", "UserJoined", "UserLeft", "Other"}

\* Where a task starts: the first lock().await of its body (commands.rs:52,
\* 94, 223, 267; main.rs:81, 94, 113).
first_pc(op) ==
    CASE op = "create_party" -> "create_check"
      [] op = "join_party" -> "join_check"
      [] op = "leave_party" -> "leave_take"
      [] op = "send_message" -> "send_add"
      [] OTHER -> "dispatch"

Idle == [op |-> "none", arg |-> NONE, pc |-> "idle", ret |-> "none"]

\* AppState as main builds it (main.rs:24-28).
InitCommands ==
    /\ current_party = NONE
    /\ locks = [current_party |-> "free", networking |-> "free"]
    /\ commands = [c \in TaskIds |-> Idle]
    /\ invoked = 0

\* The command of task c returns ret; the guards it holds are dropped.
returned(c, ret) == [commands EXCEPT ![c].pc = "idle", ![c].ret = ret]
\* The command of task c goes on to its next lock().await.
goes_to(c, pc) == [commands EXCEPT ![c].pc = pc]
released(c) ==
    [l \in DOMAIN locks |-> IF locks[l] = c THEN "free" ELSE locks[l]]

\* A command is invoked by the frontend, or the dispatcher receives a
\* message (main.rs:79).
Invoke ==
    \E c \in TaskIds :
        \E op \in IF c = DispatcherId THEN {"handle_incoming_messages"}
                   ELSE CommandNames :
            \E arg \in CASE op = "create_party" -> Protocols
                          [] op = "handle_incoming_messages" -> DispatchKinds
                          [] OTHER -> {NONE} :
                /\ invoked < MaxInvocations
                /\ commands[c].pc = "idle"
                /\ commands' = [commands EXCEPT ![c] =
                                    [op |-> op, arg |-> arg, pc |-> first_pc(op),
                                     ret |-> "pending"]]
                /\ invoked' = invoked + 1
                /\ UNCHANGED <<now, roomVars, protoVars, netVars, extVars,
                               current_party, locks>>

\* create_party, commands.rs:50-65: the check for an active party under the
\* lock, the guard dropped, then the current user.
CreateCheck(c) ==
    \E configured \in BOOLEAN :
        /\ commands[c].pc = "create_check"
        /\ locks.current_party = "free"
        /\ commands' = IF current_party # NONE
                       THEN returned(c, "PartyAlreadyActive")
                       ELSE IF ~configured THEN returned(c, "NoUser")
                       ELSE goes_to(c, "create_set")
        /\ UNCHANGED <<now, roomVars, protoVars, netVars, extVars,
                       current_party, locks, invoked>>

\* create_party, commands.rs:67-74: the party is built and stored; the
\* guard is held on.
CreateSet(c) ==
    /\ commands[c].pc = "create_set"
    /\ locks.current_party = "free"
    /\ room' = [RoomNew(CreatorId, User(NameOf(CreatorId), AddrOf(CreatorId),
                                        TRUE, now))
                    EXCEPT !.protocol = commands[c].arg]
    /\ current_party' = c
    /\ locks' = [locks EXCEPT !.current_party = c]
    /\ commands' = goes_to(c, "create_start_server")
    /\ UNCHANGED <<now, last, added, protoVars, netVars, extVars, invoked>>

\* Whether start_server returns Ok (networking.rs:76-85, 124-173): the TCP
\* server binds port 8080, which fails while another program, or the
\* accept loop of an earlier start_tcp_server, holds the port; the other
\* two are stubs that return Ok.
start_server_ok(protocol, port_free) ==
    protocol # "TCP" \/ (port_free /\ ~server_handle)

\* create_party, commands.rs:76-82: start_server under the networking lock;
\* its error is returned.
CreateStartServer(c) ==
    \E port_free \in BOOLEAN :
        LET ok == start_server_ok(commands[c].arg, port_free)
        IN  /\ commands[c].pc = "create_start_server"
            /\ locks.networking = "free"
            /\ is_server' = TRUE
            /\ server_handle' =
                   (server_handle \/ (commands[c].arg = "TCP" /\ ok))
            /\ locks' = released(c)
            /\ commands' = returned(c, IF ok THEN "Ok" ELSE "StartServerFailed")
            /\ UNCHANGED <<now, roomVars, protoVars, tcp_streams, streams_lock,
                           connections, reader, inbound, call, nlast, extVars,
                           current_party, invoked>>

\* join_party, commands.rs:93-132: the check for an active party, then the
\* invite and the current user.
JoinCheck(c) ==
    \E pre \in JoinPrechecks \ {"AlreadyInParty"} :
        /\ commands[c].pc = "join_check"
        /\ locks.current_party = "free"
        /\ commands' = IF current_party # NONE
                       THEN returned(c, "AlreadyInParty")
                       ELSE IF pre # "Ok" THEN returned(c, pre)
                       ELSE goes_to(c, "join_connect")
        /\ UNCHANGED <<now, roomVars, protoVars, netVars, extVars,
                       current_party, locks, invoked>>

\* join_party, commands.rs:134-216. At 136 the networking lock is taken and
\* the peers are tried (one of them connects, or none); the guard lives to
\* the end of the function. At 198 the lock is asked for again, at 213 the
\* lock of current_party, then the party is stored and the call returns.
JoinProceed(c) ==
    \E connected \in BOOLEAN, p \in OutboundPeers :
        LET pc == commands[c].pc
        IN  /\ pc \in {"join_connect", "join_broadcast", "join_set"}
            /\ IF pc = "join_set" THEN locks.current_party = "free"
               ELSE locks.networking = "free"
            /\ commands' =
                   IF pc = "join_connect"
                   THEN IF connected THEN goes_to(c, "join_broadcast")
                        ELSE returned(c, "ConnectivityError")
                   ELSE IF pc = "join_broadcast" THEN goes_to(c, "join_set")
                   ELSE returned(c, "Ok")
            /\ locks' =
                   IF pc = "join_connect"
                   THEN IF connected THEN [locks EXCEPT !.networking = c]
                        ELSE locks
                   ELSE IF pc = "join_broadcast" THEN locks
                   ELSE released(c)
            /\ current_party' = IF pc = "join_set" THEN c ELSE current_party
            /\ room' =
                   IF pc = "join_set"
                   THEN RoomNew(CreatorId, User(NameOf(CreatorId),
                                                AddrOf(CreatorId), TRUE, now))
                   ELSE room
            /\ IF pc = "join_connect" /\ connected
               THEN /\ tcp_streams' = tcp_streams \cup {p}
                    /\ connections' =
                           MapInsert(connections, p, PeerConnection(p, now))
                    /\ reader' = [reader EXCEPT ![p] =
                                      [pc |-> "spawned", conn |-> 1,
                                       frames |-> 0, skipped |-> 0]]
               ELSE UNCHANGED <<tcp_streams, connections, reader>>
            /\ UNCHANGED <<now, last, added, protoVars, streams_lock, inbound,
                           is_server, server_handle, call, nlast, extVars,
                           invoked>>

\* leave_party, commands.rs:223-231, 240-242: the party is taken out; the
\* guard is held on.
LeaveTake(c) ==
    /\ commands[c].pc = "leave_take"
    /\ locks.current_party = "free"
    /\ IF current_party = NONE
       THEN /\ commands' = returned(c, "NotInParty")
            /\ UNCHANGED <<current_party, locks>>
       ELSE /\ current_party' = NONE
            /\ locks' = [locks EXCEPT !.current_party = c]
            /\ commands' = goes_to(c, "leave_disconnect")
    /\ UNCHANGED <<now, roomVars, protoVars, netVars, extVars, invoked>>

\* leave_party, commands.rs:233-239: disconnect_all (networking.rs:381-393)
\* under the networking lock. The accept loop is left running.
LeaveDisconnect(c) ==
    /\ commands[c].pc = "leave_disconnect"
    /\ locks.networking = "free"
    /\ connections' = << >>
    /\ is_server' = FALSE
    /\ locks' = released(c)
    /\ commands' = returned(c, "Ok")
    /\ UNCHANGED <<now, roomVars, protoVars, tcp_streams, streams_lock, reader,
                   inbound, server_handle, call, nlast, extVars, current_party,
                   invoked>>

\* send_message, commands.rs:250-275, 292-294: the message is added to the
\* party; the guard is held on.
SendAdd(c) ==
    \E configured \in BOOLEAN :
        /\ commands[c].pc = "send_add"
        /\ locks.current_party = "free"
        /\ IF ~configured \/ current_party = NONE
           THEN /\ commands' = returned(c, IF ~configured THEN "NoUser"
                                           ELSE "NotInParty")
                /\ UNCHANGED <<room, added, locks>>
           ELSE /\ room' = add_message(room, added + 1)
                /\ added' = added + 1
                /\ locks' = [locks EXCEPT !.current_party = c]
                /\ commands' = goes_to(c, "send_broadcast")
        /\ UNCHANGED <<now, last, protoVars, netVars, extVars, current_party,
                       invoked>>

\* send_message, commands.rs:276-291: the broadcast under the networking
\* lock; its error is only logged.
SendBroadcast(c) ==
    /\ commands[c].pc = "send_broadcast"
    /\ locks.networking = "free"
    /\ locks' = released(c)
    /\ commands' = returned(c, "Ok")
    /\ UNCHANGED <<now, roomVars, protoVars, netVars, extVars, current_party,
                   invoked>>

\* One round of handle_incoming_messages (main.rs:79-125): the party, if
\* there is one, takes the message, the user that joined or left.
Dispatch(c) ==
    /\ commands[c].pc = "dispatch"
    /\ locks.current_party = "free"
    /\ IF current_party = NONE \/ commands[c].arg = "Other"
       THEN UNCHANGED <<room, added>>
       ELSE IF commands[c].arg = "ChatMessage"
       THEN /\ room' = add_message(room, added + 1)
            /\ added' = added + 1
       ELSE IF commands[c].arg = "UserJoined"
       THEN /\ \E res \in add_user(room, "u2",
                                    User(NameOf("u2"), AddrOf("u2"), TRUE, now)) :
                   room' = res.room
            /\ UNCHANGED added
       ELSE /\ room' \in remove_user(room, "u2", now)
            /\ UNCHANGED added
    /\ commands' = returned(c, "Ok")
    /\ UNCHANGED <<now, last, protoVars, netVars, extVars, current_party, locks,
                   invoked>>

\* What task c does next.
Step(c) ==
    \/ CreateCheck(c)
    \/ CreateSet(c)
    \/ CreateStartServer(c)
    \/ JoinCheck(c)
    \/ JoinProceed(c)
    \/ LeaveTake(c)
    \/ LeaveDisconnect(c)
    \/ SendAdd(c)
    \/ SendBroadcast(c)
    \/ Dispatch(c)

NextCommands ==
    \/ Invoke
    \/ \E c \in TaskIds : Step(c)

Init ==
    /\ InitRoom /\ InitProto /\ InitNet
    /\ InitJoin /\ InitCmd /\ InitInvite /\ InitPing /\ InitHealth
    /\ InitCommands

SpecRoom == Init /\ [][NextRoom]_vars
SpecProto == Init /\ [][NextProto]_vars
SpecNet == Init /\ [][NextNet]_vars
SpecInbound == Init /\ [][NextInbound]_vars
SpecNames == Init /\ [][NextNames]_vars
SpecMessages == Init /\ [][NextMessages]_vars
SpecCleanup == Init /\ [][NextCleanup]_vars
SpecJoin == Init /\ [][NextJoin]_vars
SpecInvite == Init /\ [][NextInvite]_vars
SpecExpiry == Init /\ [][NextExpiry]_vars
SpecSync == Init /\ [][NextSync]_vars
SpecPing == Init /\ [][NextPing]_vars
SpecHealth == Init /\ [][NextHealth]_vars
SpecFrame == Init /\ [][NextFrame]_vars
SpecCommands == Init /\ [][NextCommands]_vars
\* The tokio Mutex hands the lock to its waiters in the order they came, and
\* the runtime polls every task that can go on: no task that can take a
\* step again and again is passed over forever.
SpecCommandsFair ==
    Init /\ [][NextCommands]_vars /\ \A c \in TaskIds : SF_vars(Step(c))
SpecSwitchCleanup == Init /\ [][NextSwitchCleanup]_vars
\* The future of initiate_protocol_switch is polled until it is done: each
\* of its sleeps ends.
SpecSwitchRun ==
    /\ Init /\ [][NextSwitchRun]_vars
    /\ WF_vars(AckWaitPoll) /\ WF_vars(AckWaitElapsed)
    /\ WF_vars(SleepElapsed) /\ WF_vars(ReconnectDone)
SpecSameName == Init /\ [][NextSameName]_vars

(***************************************************************************)
(* Properties of the Room (checked under SpecRoom).                        *)
(***************************************************************************)
\* elect_new_server was the last thing to change the room: it ran in the
\* last operation, alone or at the end of remove_user, mark_user_offline or
\* check_server_health (cleanup_offline_users goes on after its elections).
AfterElection == last.elected /\ last.op # "cleanup_offline_users"

\* The users of r that are online, have an entry in ping_measurements and
\* were seen less than 5 minutes before t.
MeasuredRecentOnline(r, t) ==
    {u \in DOMAIN r.users :
        /\ r.users[u].is_online
        /\ u \in DOMAIN r.ping_measurements
        /\ t - r.users[u].last_seen < Minutes(5)}

\* Those of them whose measurement is below u64::MAX.
ValidRecentOnline(r, t) ==
    {u \in MeasuredRecentOnline(r, t) : r.ping_measurements[u] < U64_MAX}

\* s is a member of C whose ping is minimal in C.
LowestPingIn(r, s, C) ==
    s \in C /\ \A v \in C : r.ping_measurements[s] <= r.ping_measurements[v]

\* C1: after any sequence of Room operations, server_user_id is absent or
\* the id of a user that is present in users and online.
C1_ServerIsOnlineUser ==
    \/ room.server_user_id = NONE
    \/ /\ room.server_user_id \in DOMAIN room.users
       /\ room.users[room.server_user_id].is_online

\* The creator, the first server, was marked offline and another user took
\* over.
C1_Witness ==
    /\ last.op = "mark_user_offline"
    /\ last.elected
    /\ room.server_user_id \notin {NONE, CreatorId}
    /\ CreatorId \in DOMAIN room.users

\* C2, as claimed: after elect_new_server, if some user is online, measured
\* and recently seen, the server is such a user of minimal ping.
C2_AsClaimed ==
    (AfterElection /\ MeasuredRecentOnline(room, now) # {})
        => LowestPingIn(room, room.server_user_id, MeasuredRecentOnline(room, now))

\* C2, amended: after elect_new_server, if some user is online, recently
\* seen and has a measurement below u64::MAX, the server is such a user of
\* minimal ping.
C2_LowestValidPingWins ==
    (AfterElection /\ ValidRecentOnline(room, now) # {})
        => LowestPingIn(room, room.server_user_id, ValidRecentOnline(room, now))

\* An election among two candidates of different pings, a third online
\* user with a measurement being left out of it.
C2_Witness ==
    /\ last.op = "elect_new_server"
    /\ \E u, v \in ValidRecentOnline(room, now) :
           room.ping_measurements[u] < room.ping_measurements[v]
    /\ \E w \in OnlineUsers(room) \ ValidRecentOnline(room, now) :
           w \in DOMAIN room.ping_measurements

\* What C3 says of the room r1 left by mark_user_offline(u) or
\* remove_user(u) on the server u, with C the users that count as online
\* with a recent ping.
ReelectedWithout(u, r1, C) ==
    /\ r1.server_user_id # u
    /\ IF C # {} THEN LowestPingIn(r1, r1.server_user_id, C)
       ELSE IF OnlineUsers(r1) # {} THEN r1.server_user_id \in OnlineUsers(r1)
       ELSE r1.server_user_id = NONE

\* The step is a mark_user_offline or a remove_user of the current server.
ServerLeaves ==
    /\ now' = now
    /\ last'.op \in {"mark_user_offline", "remove_user"}
    /\ last'.elected

\* C3, as claimed: the election runs in the same operation and picks the
\* lowest ping among the remaining online users that are measured and
\* recently seen, else some remaining online user, else nobody.
C3_AsClaimed ==
    [][ServerLeaves =>
          ReelectedWithout(room.server_user_id, room',
                           MeasuredRecentOnline(room', now))]_vars

\* C3, amended: the same, the lowest ping being taken among the remaining
\* online, recently seen users whose measurement is below u64::MAX.
C3_ReelectionOnLeave ==
    [][ServerLeaves =>
          ReelectedWithout(room.server_user_id, room',
                           ValidRecentOnline(room', now))]_vars

\* The server was marked offline and, of two remaining candidates of
\* different pings, the lower one took over.
C3_Witness ==
    /\ last.op = "mark_user_offline"
    /\ last.elected
    /\ \E v \in ValidRecentOnline(room, now) :
           room.ping_measurements[room.server_user_id] < room.ping_measurements[v]
    /\ Cardinality(DOMAIN room.users \ OnlineUsers(room)) = 1

\* C8: check_server_health returns true exactly when the server is assigned,
\* is a user of the room, is online and was seen less than 5 minutes ago;
\* then the room is left as it was; otherwise elect_new_server runs and the
\* call returns false.
C8_HealthCheck ==
    [][(now' = now /\ last'.op = "check_server_health") =>
          LET s == room.server_user_id
              healthy == /\ s # NONE
                         /\ s \in DOMAIN room.users
                         /\ room.users[s].is_online
                         /\ now - room.users[s].last_seen < Minutes(5)
          IN  /\ last'.ret <=> healthy
              /\ last'.ret => (room' = room /\ ~last'.elected)
              /\ ~last'.ret => (last'.elected /\ room' \in elect_new_server(room, now))
      ]_vars

\* A health check returned false and elected a user, passing over an online
\* user that was last seen exactly 5 minutes before.
C8_Witness ==
    /\ last.op = "check_server_health"
    /\ ~last.ret
    /\ room.server_user_id # NONE
    /\ \E u \in OnlineUsers(room) :
           /\ u # room.server_user_id
           /\ now - room.users[u].last_seen = Minutes(5)

\* C9: after elect_new_server, when no user is online, measured and recently
\* seen: the server is some online user if there is one, and absent if
\* there is none.
C9_Fallback ==
    (AfterElection /\ MeasuredRecentOnline(room, now) = {})
        => IF OnlineUsers(room) # {}
           THEN room.server_user_id \in OnlineUsers(room)
           ELSE room.server_user_id = NONE

\* The fallback chose among two online users, none of them a candidate.
C9_Witness ==
    /\ AfterElection
    /\ MeasuredRecentOnline(room, now) = {}
    /\ Cardinality(OnlineUsers(room)) >= 2
    /\ DOMAIN room.ping_measurements # {}

\* C10: elect_new_server is deterministic: two runs of it on the same users
\* and ping_measurements assign the same server.
C10_ElectionDeterministic ==
    \A r1, r2 \in elect_new_server(room, now) :
        r1.server_user_id = r2.server_user_id

\* User values whose id is already in the room: any name, address, online
\* flag and last_seen.
DuplicateUsers ==
    {User(name, address, is_online, last_seen) :
        name \in {NameOf(u) : u \in UserIds} \cup {<<"n">>},
        address \in {"a1", "a2", "a3"},
        is_online \in BOOLEAN,
        last_seen \in {0, now}}

\* C16: add_user with a user whose id is already a key of users fails and
\* leaves users, peer_addresses, ping_measurements and server_user_id as
\* they were.
C16_DuplicateIdRejected ==
    \A id \in DOMAIN room.users, user \in DuplicateUsers :
        \A res \in add_user(room, id, user) : ~res.ok /\ res.room = room

\* An add_user has just failed in a room of three users, each with a ping
\* measurement.
C16_Witness ==
    /\ last.op = "edit"
    /\ ~last.ret
    /\ DOMAIN room.users = UserIds
    /\ DOMAIN room.ping_measurements = UserIds

(***************************************************************************)
(* Properties of the names (checked under SpecNames).                      *)
(***************************************************************************)
\* C17: after any sequence of add_user and remove_user, no two users of the
\* room have the same name.
C17_NamesUnique ==
    \A u, v \in DOMAIN room.users :
        u # v => room.users[u].name # room.users[v].name

(***************************************************************************)
(* Properties of the chat history (checked under SpecMessages).            *)
(***************************************************************************)
\* C18: messages holds at most 1000 entries and equals the last
\* min(n, 1000) of the n messages added, in insertion order; the message
\* just added is retained.
C18_SlidingWindow ==
    LET n == added
        held == IF n < KEEP_MESSAGES THEN n ELSE KEEP_MESSAGES
    IN  /\ Len(room.messages) <= KEEP_MESSAGES
        /\ Len(room.messages) = held
        /\ \A i \in 1..Len(room.messages) : room.messages[i] = n - held + i

\* The 1001st message has been added to a full list: the first message is
\* gone, the second is at the front.
C18_Witness ==
    /\ Len(room.messages) = KEEP_MESSAGES
    /\ room.messages[1] = 2
    /\ room.messages[KEEP_MESSAGES] = KEEP_MESSAGES + 1

(***************************************************************************)
(* Properties of the cleanup (checked under SpecCleanup).                  *)
(***************************************************************************)
\* C19: cleanup_offline_users(t) marks offline every online user whose age
\* is greater than t minutes, and leaves the online flag of every other user
\* as it was.
C19_CleanupMarksEveryStaleUser ==
    \A t \in Thresholds :
        \A r1 \in cleanup_offline_users(room, t, now) :
            /\ DOMAIN r1.users = DOMAIN room.users
            /\ \A u \in DOMAIN room.users :
                   r1.users[u].is_online =
                       (/\ room.users[u].is_online
                        /\ ~(now - room.users[u].last_seen > Minutes(t)))

\* C37: after cleanup_offline_users(t), in whatever order the stale users
\* were marked offline, server_user_id is absent or names a user of the room
\* that is online and whose last_seen is not older than t minutes.
C37_ServerFreshAfterCleanup ==
    \A t \in Thresholds :
        \A r1 \in cleanup_offline_users(room, t, now) :
            \/ r1.server_user_id = NONE
            \/ /\ r1.server_user_id \in DOMAIN r1.users
               /\ r1.users[r1.server_user_id].is_online
               /\ now - r1.users[r1.server_user_id].last_seen <= Minutes(t)

(***************************************************************************)
(* Properties of the ProtocolManager (checked under SpecProto).            *)
(***************************************************************************)
NonTerminal == {"Preparing", "Switching", "Reconnecting"}

\* C4: initiate_protocol_switch fails exactly when the room's stored event
\* is Preparing, Switching or Reconnecting; with a Complete or Failed event,
\* or none, it is accepted, whatever the state of the other rooms.
C4_SingleFlight ==
    plast.op = "initiate_protocol_switch"
        => (plast.ret = "Err" <=> plast.pre \in NonTerminal)

\* A switch was accepted for a room whose last switch had ended, while the
\* switch of another room was still non-terminal.
C4_Witness ==
    /\ plast.op = "initiate_protocol_switch"
    /\ plast.ret = "pending"
    /\ plast.pre \in {"Complete", "Failed"}
    /\ \E other \in RoomIds \ {plast.room_id} :
           StateOf(current_switches, other) \in NonTerminal

\* The edges of the machine.
MachineEdges ==
    {<<"Preparing", "Switching">>, <<"Switching", "Reconnecting">>,
     <<"Reconnecting", "Complete">>, <<"Preparing", "Failed">>,
     <<"Switching", "Failed">>, <<"Reconnecting", "Failed">>}

\* C5: the state of a room's switch only follows the edges of the machine;
\* a Complete or Failed event changes only through a new
\* initiate_protocol_switch.
C5_OnlyMachineEdges ==
    [][\A r \in RoomIds :
          LET a == StateOf(current_switches, r)
              b == StateOf(current_switches', r)
          IN  \/ a = b
              \/ <<a, b>> \in MachineEdges
              \/ /\ a \in {"None", "Complete", "Failed"}
                 /\ b = "Preparing"
                 /\ plast'.op = "initiate_protocol_switch"
      ]_vars

\* The affected peers of the switch the last operation was about.
AffectedPeers ==
    IF plast.room_id \in DOMAIN current_switches
    THEN Range(current_switches[plast.room_id].affected_peers)
    ELSE {}

C20_CancelEndsSwitch ==
    [][/\ (/\ plast'.op = "cancel_switch"
           /\ StateOf(current_switches, plast'.room_id) \in NonTerminal)
          => /\ StateOf(current_switches', plast'.room_id) = "Failed"
             /\ events' = Append(events, current_switches'[plast'.room_id])
       /\ \A r \in RoomIds :
             StateOf(current_switches, r) = "Failed"
                 => /\ ~switch_in_progress(current_switches, r)
                    /\ \/ StateOf(current_switches', r) = "Failed"
                       \/ /\ StateOf(current_switches', r) = "Preparing"
                          /\ plast'.op = "initiate_protocol_switch"
                          /\ plast'.room_id = r
                          /\ plast'.ret = "pending"
      ]_vars

\* A switch left in Switching was cancelled, and a new switch for the room
\* has since been accepted.
C20_Witness ==
    /\ plast.op = "initiate_protocol_switch"
    /\ plast.pre = "Failed"
    /\ plast.ret = "pending"
    /\ \E i \in 2..Len(events) :
           /\ events[i].room_id = plast.room_id
           /\ events[i].state = "Failed"
           /\ events[i].reason = "Cancelled by user"
           /\ events[i - 1].room_id = plast.room_id
           /\ events[i - 1].state = "Switching"

\* The states of the events published for a room, in the order published.
PublishedStates(r) ==
    LET mine == SelectSeq(events, LAMBDA e : e.room_id = r)
    IN  [i \in 1..Len(mine) |-> mine[i].state]

\* C21: every change of state is published once, in order: when
\* initiate_protocol_switch has returned Ok, the events it published for
\* the room are exactly Preparing, Switching, Reconnecting, Complete (what
\* was published before them for the room ended an earlier switch), and
\* the last event published for a room carries the state stored for it.
C21_OneEventPerTransition ==
    /\ (plast.op = "initiate_protocol_switch" /\ plast.ret = "Ok")
          => LET st == PublishedStates(plast.room_id)
                 n == Len(st)
             IN  /\ n >= 4
                 /\ SubSeq(st, n - 3, n) =
                        <<"Preparing", "Switching", "Reconnecting", "Complete">>
                 /\ n >= 5 => is_terminal(st[n - 4])
    /\ \A r \in RoomIds :
          LET st == PublishedStates(r)
          IN  IF r \in DOMAIN current_switches
              THEN st # << >> /\ st[Len(st)] = current_switches[r].state
              ELSE st = << >>

\* C27 (checked under SpecSwitchCleanup): cleanup_completed_switches
\* removes exactly the events that are Complete or Failed and more than
\* one hour old; it removes no non-terminal event, and it keeps a terminal
\* event younger than one hour.
C27_CleanupRemovesOlderThanHour ==
    [][(plast'.op = "cleanup_completed_switches" /\ now' = now)
          => /\ DOMAIN current_switches' =
                    {r \in DOMAIN current_switches :
                        ~(/\ is_terminal(current_switches[r].state)
                          /\ now - current_switches[r].timestamp > Hours(1))}
             /\ \A r \in DOMAIN current_switches' :
                    current_switches'[r] = current_switches[r]
      ]_vars

(***************************************************************************)
(* Properties of the NetworkManager (checked under SpecNet).               *)
(***************************************************************************)
\* C6: a connection that was registered stays in the connection registry
\* while and after its reader task runs.
C6_ReaderKeepsRegistration ==
    \A p \in PeerIds :
        reader[p].pc \in {"reading", "stopped"} => p \in tcp_streams

\* C7: broadcast_message returns Ok after a send_to_peer for every peer id
\* of its snapshot, whichever of them failed.
C7_BestEffortBroadcast ==
    nlast.op = "broadcast_message"
        => (nlast.ret = "Ok" /\ nlast.attempted = nlast.snapshot)

\* A broadcast to three peers, of which the send failed for one or two.
C7_Witness ==
    /\ nlast.op = "broadcast_message"
    /\ Cardinality(nlast.snapshot) = 3
    /\ nlast.failed # {}
    /\ nlast.failed # nlast.snapshot

\* C14: broadcast_message never holds the lock over the connection registry
\* while a write to a peer is in progress.
C14_NoLockDuringBroadcastWrite ==
    (call.op = "broadcast_message" /\ call.cur # NONE) => streams_lock = "free"

\* C15: after disconnect_all returns, tcp_streams and connections are both
\* empty.
C15_DisconnectAllEmptiesBoth ==
    [][DisconnectAll => (tcp_streams' = {} /\ connections' = << >>)]_vars

(***************************************************************************)
(* Properties of the reader tasks (checked under SpecInbound).             *)
(***************************************************************************)
\* C12: once the reader loop of a connection has read a frame that is not
\* UTF-8 or not a NetworkMessage, no later frame of that connection reaches
\* the inbound queue.
C12_MalformedFrameEndsReader ==
    \A p \in PeerIds :
        reader[p].skipped > 0
            => \A i \in 1..Len(inbound) :
                   (inbound[i][1] = p /\ inbound[i][2] = reader[p].conn)
                       => inbound[i][3] < reader[p].skipped

\* C13: the messages of one connection are in the inbound queue in the
\* order their frames were read, none of them twice.
C13_PerConnectionOrder ==
    \A i, j \in 1..Len(inbound) :
        (i < j /\ inbound[i][1] = inbound[j][1] /\ inbound[i][2] = inbound[j][2])
            => inbound[i][3] < inbound[j][3]

\* Two messages of one connection with a message of another connection
\* between them.
C13_Witness ==
    \E i, j, k \in 1..Len(inbound) :
        /\ i < j /\ j < k
        /\ inbound[i][1] = inbound[k][1]
        /\ inbound[i][2] = inbound[k][2]
        /\ inbound[j][1] # inbound[i][1]

(***************************************************************************)
(* Properties of join_party (checked under SpecJoin).                      *)
(***************************************************************************)
\* C22: join_party attempts the peers of the invite in list order and stops
\* at the first that connects; it fails with a connectivity error exactly
\* when it has attempted every peer and every attempt failed, with one
\* message per attempted peer; an invite without peers fails.
C22_JoinTriesPeersInOrder ==
    LET n == Len(join.attempted)
    IN  /\ n <= Len(join.peer_addresses)
        /\ join.attempted = SubSeq(join.peer_addresses, 1, n)
        /\ \A i \in 1..(n - 1) : ~join.results[i]
        /\ join.connected <=> (n > 0 /\ join.results[n])
        /\ join.connected => join.pc = "lock_networking"
        /\ join.ret = "ConnectivityError"
              <=> /\ join.pc = "returned"
                  /\ join.ret \notin JoinPrechecks
                  /\ n = Len(join.peer_addresses)
                  /\ \A i \in 1..n : ~join.results[i]
        /\ join.ret = "ConnectivityError"
              => /\ Len(join.connection_errors) = n
                 /\ \A i \in 1..n : join.connection_errors[i][2] = join.attempted[i]
        /\ join.peer_addresses = << >>
              => /\ join.pc \in {"none", "returned"}
                 /\ join.ret \in (JoinPrechecks \ {"Ok"})
                                   \cup {"none", "ConnectivityError"}

\* join_party gave up on an invite of three peers when all three had
\* failed.
C22_Witness ==
    /\ join.ret = "ConnectivityError"
    /\ Len(join.peer_addresses) = MaxInvitePeers
    /\ Len(join.connection_errors) = MaxInvitePeers

C24_ExpiredIffOlderThanThreshold ==
    invite.op = "is_expired"
        => /\ invite.ret = (now - invite.x.created_at > Hours(invite.max_age_hours))
           /\ invite.ret
                 => \A h \in 0..invite.max_age_hours : is_expired(invite.x, h, now)
           /\ invite.x.created_at = now => ~invite.ret

(***************************************************************************)
(* Properties of sync_messages (checked under SpecSync).                   *)
(***************************************************************************)
\* C25: after sync_messages on the active room the messages are a
\* permutation of what they were, in non-decreasing timestamp order, and
\* the returned list is the stored list; with another room id the call
\* fails and the messages are what they were.
C25_SyncSortsInPlace ==
    cmd.op = "sync_messages"
        => IF cmd.room_id = ActiveRoomId
           THEN /\ cmd.ret = "Ok"
                /\ Len(room.messages) = Len(cmd.before)
                /\ \A m \in Range(cmd.before) :
                       Cardinality({i \in 1..Len(room.messages) : room.messages[i] = m})
                           = Cardinality({i \in 1..Len(cmd.before) : cmd.before[i] = m})
                /\ \A i \in 1..(Len(room.messages) - 1) :
                       room.messages[i].timestamp <= room.messages[i + 1].timestamp
                /\ cmd.returned = room.messages
           ELSE /\ cmd.ret = "Err"
                /\ room.messages = cmd.before

\* Three messages that had arrived latest first were put in order.
C25_Witness ==
    /\ cmd.op = "sync_messages"
    /\ cmd.room_id = ActiveRoomId
    /\ Len(cmd.before) = 3
    /\ \A i \in 1..2 : cmd.before[i].timestamp > cmd.before[i + 1].timestamp
    /\ cmd.returned # cmd.before

(***************************************************************************)
(* Properties of the names of a room (checked under SpecSameName).         *)
(***************************************************************************)
\* C26: in a room without a user named B or B-N, the k-th user to join
\* under the name B is named B if k = 1 and B-k otherwise, and the names of
\* the users that joined before stay as they are.
C26_SuffixesInJoinOrder ==
    [][\A id \in DOMAIN room'.users \ DOMAIN room.users :
          \E B \in SameNames :
              LET k == Cardinality(Joined) + 1
              IN  /\ \A u \in Joined :
                         \/ room.users[u].name = B
                         \/ starts_with(room.users[u].name, B \o <<"-">>)
                  /\ room'.users[id].name =
                         IF k = 1 THEN B ELSE B \o <<"-">> \o format_u32(k)
                  /\ \A u \in DOMAIN room.users :
                         room'.users[u].name = room.users[u].name
      ]_vars

\* Three users joined under one name and the third was given the suffix 3.
C26_Witness ==
    \E B \in SameNames :
        {room.users[u].name : u \in Joined} =
            {B, B \o <<"-", "2">>, B \o <<"-", "3">>}

(***************************************************************************)
(* Properties of the PingManager (checked under SpecPing).                 *)
(***************************************************************************)
\* C28: after every metric update the average_ping of an entry is the
\* floor of the mean of those of tcp_ping, app_ping and webrtc_rtt that are
\* present, and it is absent only if none of them is present.
C28_AverageIsFloorMean ==
    \A addr \in DOMAIN measurements :
        LET m == measurements[addr]
            values == present_values(m)
        IN  IF Len(values) = 0 THEN m.average_ping = -1
            ELSE m.average_ping = SeqSum(values) \div Len(values)

\* C29: get_sorted_by_ping returns every measurement once, in non-decreasing
\* order of average_ping with the absent averages last; get_best_peer
\* returns none if and only if there are no measurements, and otherwise
\* the address of a measurement whose average_ping is minimal among the
\* measurements that have one.
C29_SortedByPingAndBestPeer ==
    /\ cmd.op = "get_sorted_by_ping" =>
           LET v == cmd.returned
           IN  /\ Len(v) = Cardinality(DOMAIN measurements)
               /\ \A a \in DOMAIN measurements :
                      Cardinality({i \in 1..Len(v) : v[i] = measurements[a]}) = 1
               /\ \A i, j \in 1..Len(v) :
                      i < j =>
                          \/ v[j].average_ping = -1
                          \/ /\ v[i].average_ping # -1
                             /\ v[i].average_ping <= v[j].average_ping
    /\ cmd.op = "get_best_peer" =>
           LET best == cmd.returned[1]
               have == {a \in DOMAIN measurements :
                           measurements[a].average_ping # -1}
           IN  /\ best = NONE <=> DOMAIN measurements = {}
               /\ (best # NONE /\ have # {}) =>
                      /\ best \in have
                      /\ \A a \in have : measurements[best].average_ping
                                             <= measurements[a].average_ping

\* Two measurements with different averages were returned, the one of the
\* later address first.
C29_Witness ==
    /\ cmd.op = "get_sorted_by_ping"
    /\ Len(cmd.returned) = 2
    /\ cmd.returned[1].peer_addr = "a2"
    /\ cmd.returned[1].average_ping < cmd.returned[2].average_ping

(***************************************************************************)
(* Properties of the peer-health table (checked under SpecHealth).         *)
(***************************************************************************)
\* C30: after mark_peer_offline(p) and until the next update_ping(p),
\* is_peer_healthy(p, t) is false for every t and
\* get_best_server_candidate does not return p; get_best_server_candidate
\* returns a peer whose ping is minimal among the peers that have a ping,
\* and none if no peer has one.
C30_OfflinePeerUnhealthyAndNeverBest ==
    /\ (cmd.op = "is_peer_healthy" /\ cmd.peer_id \in marked_offline) =>
           ~cmd.ret
    /\ cmd.op = "get_best_server_candidate" =>
           LET with_ping == {id \in DOMAIN connections :
                                connections[id].ping_ms # -1}
           IN  /\ cmd.ret \notin marked_offline
               /\ cmd.ret = NONE <=> with_ping = {}
               /\ cmd.ret # NONE =>
                      /\ cmd.ret \in with_ping
                      /\ \A id \in with_ping :
                             connections[cmd.ret].ping_ms
                                 <= connections[id].ping_ms

\* p1 is in the table and was marked offline, p2 has a ping, and the
\* candidate is p2.
C30_Witness ==
    /\ cmd.op = "get_best_server_candidate"
    /\ cmd.ret = "p2"
    /\ "p1" \in marked_offline
    /\ "p1" \in DOMAIN connections
    /\ connections["p2"].ping_ms = 1

\* The users of r other than u that are online and were seen less than
\* 5 minutes before t.
OtherRecentOnline(r, u, t) ==
    {v \in OnlineUsers(r) \ {u} : is_ping_recent(r, v, t)}

\* C33: when check_server_health returns false because the last_seen of
\* the online server is stale, and another online user was seen within 5
\* minutes, the election assigns such a user (not the stale server), so a
\* check_server_health repeated at once returns true.
C33_StaleServerReplaced ==
    [][(/\ now' = now
        /\ last'.op = "check_server_health"
        /\ ~last'.ret
        /\ room.server_user_id \in OnlineUsers(room)
        /\ ~is_ping_recent(room, room.server_user_id, now)
        /\ OtherRecentOnline(room, room.server_user_id, now) # {})
       => /\ room'.server_user_id
                 \in OtherRecentOnline(room, room.server_user_id, now)
          /\ server_is_healthy(room', now)]_vars

(***************************************************************************)
(* Properties of the room operations that do not elect (SpecFrame).        *)
(***************************************************************************)
\* C32: server_user_id is changed only by elect_new_server: add_user,
\* add_message, update_ping, mark_user_online, switch_protocol, and
\* mark_user_offline or remove_user of a user who is not the server leave
\* server_user_id as it was, even when the user has a lower ping than the
\* server.
C32_ServerChangedOnlyByElection ==
    [][room'.server_user_id # room.server_user_id => last'.elected]_vars

\* An operation that did not elect left u1 the server although u2 is online
\* with a lower ping.
C32_Witness ==
    /\ ~last.elected
    /\ room.server_user_id = "u1"
    /\ "u2" \in OnlineUsers(room)
    /\ {"u1", "u2"} \subseteq DOMAIN room.ping_measurements
    /\ room.ping_measurements["u2"] < room.ping_measurements["u1"]
    /\ room.protocol = "WebRTC"
    /\ Len(room.messages) = 1

\* C39: whenever some user of the room is online, the room has a server.
C39_OnlineUserImpliesServer ==
    (\E u \in DOMAIN room.users : room.users[u].is_online)
        => room.server_user_id # NONE

\* C35: peer_addresses has no duplicate, and its elements are exactly the
\* addresses of the users of the room.
C35_PeerAddressesMatchUsers ==
    /\ \A i, j \in DOMAIN room.peer_addresses :
           room.peer_addresses[i] = room.peer_addresses[j] => i = j
    /\ {room.peer_addresses[i] : i \in DOMAIN room.peer_addresses}
           = {room.users[u].address : u \in DOMAIN room.users}

(***************************************************************************)
(* More properties of the ProtocolManager.                                 *)
(***************************************************************************)
\* C38: a call of initiate_protocol_switch that is rejected because a switch
\* is in progress leaves the stored events, the published events and the
\* running switch as they were.
C38_RejectedSwitchHasNoEffect ==
    [][(plast'.op = "initiate_protocol_switch" /\ plast'.ret = "Err")
          => UNCHANGED <<current_switches, events, exec>>]_vars

\* A call was rejected while the room's switch was under way, and what the
\* switch had published is still there.
C38_Witness ==
    /\ plast.op = "initiate_protocol_switch"
    /\ plast.ret = "Err"
    /\ plast.pre \in NonTerminal
    /\ StateOf(current_switches, plast.room_id) = plast.pre
    /\ Len(events) >= 2

C34_FailedCreateLeavesNoParty ==
    \A c \in CommandIds :
        (/\ commands[c].op = "create_party"
         /\ commands[c].pc = "idle"
         /\ commands[c].ret \notin {"Ok", "PartyAlreadyActive"})
            => current_party # c

\* C40: an active party is never overwritten: while a party is stored, no
\* step stores another one.
C40_ActivePartyNeverOverwritten ==
    [][(current_party # NONE /\ current_party' # NONE)
          => current_party' = current_party]_vars

\* C31: every command that was invoked, and every round of the dispatcher,
\* eventually returns.
C31_EveryCommandReturns ==
    \A c \in TaskIds : (commands[c].pc # "idle") ~> (commands[c].pc = "idle")
====
